---- MODULE Spec2Model ----
(***************************************************************************)
(* Model of the canvas generation route (src/app/api/generateCanvas) and   *)
(* of the token ledger it bills against (src/lib/tokenTracker.ts).         *)
(*                                                                         *)
(* JavaScript numbers are tagged records.  A finite number is kept in      *)
(* halves (field h): Num(n) is the integer n and Halves(5) is 2.5, so      *)
(* Math.round is not the identity.  NaN, Infinity and -Infinity are their  *)
(* own values, and Null is the JSON value null.                            *)
(***************************************************************************)
EXTENDS Integers, Sequences, FiniteSets, TLC

\* ------------------------------------------------------------------ bounds
NumCallers == 2
MaxCalls == 2
MaxSeqCalls == 3
MaxHistoryCalls == 25

\* -------------------------------------------------------- program constants
TOKEN_ALLOWANCE == 50000
HISTORY_LIMIT == 20

\* ------------------------------------------------------- JavaScript values
Halves(k) == [t |-> "num", h |-> k]
Num(n) == Halves(2 * n)
NaN == [t |-> "nan"]
Inf == [t |-> "inf"]
NegInf == [t |-> "ninf"]
Null == [t |-> "null"]
Undefined == [t |-> "undef"]

\* ToNumber of the values the ledger handles: null is 0, undefined is NaN.
ToNumber(v) ==
  CASE v.t = "null" -> Num(0)
    [] v.t = "undef" -> NaN
    [] OTHER -> v

JsNeg(v) ==
  CASE v.t = "num" -> Halves(0 - v.h)
    [] v.t = "inf" -> NegInf
    [] v.t = "ninf" -> Inf
    [] OTHER -> NaN

JsAddNum(a, b) ==
  CASE a.t = "nan" \/ b.t = "nan" -> NaN
    [] a.t = "num" /\ b.t = "num" -> Halves(a.h + b.h)
    [] a.t = "num" -> b
    [] b.t = "num" -> a
    [] a.t = b.t -> a
    [] OTHER -> NaN

JsAdd(a, b) == JsAddNum(ToNumber(a), ToNumber(b))
JsSub(a, b) == JsAddNum(ToNumber(a), JsNeg(ToNumber(b)))

\* a < b on numbers that are not NaN
LtNum(a, b) ==
  CASE a.t = "num" /\ b.t = "num" -> a.h < b.h
    [] a.t = "ninf" -> b.t # "ninf"
    [] a.t = "inf" -> FALSE
    [] OTHER -> b.t = "inf"

\* a <= b as JavaScript evaluates it: false when either side is NaN
JsLe(a, b) ==
  LET x == ToNumber(a)
      y == ToNumber(b)
  IN  /\ x.t # "nan"
      /\ y.t # "nan"
      /\ ~LtNum(y, x)

JsGt(a, b) ==
  LET x == ToNumber(a)
      y == ToNumber(b)
  IN  /\ x.t # "nan"
      /\ y.t # "nan"
      /\ LtNum(y, x)

MathMax(a, b) ==
  LET x == ToNumber(a)
      y == ToNumber(b)
  IN  IF x.t = "nan" \/ y.t = "nan" THEN NaN
      ELSE IF LtNum(x, y) THEN y ELSE x

MathMin(a, b) ==
  LET x == ToNumber(a)
      y == ToNumber(b)
  IN  IF x.t = "nan" \/ y.t = "nan" THEN NaN
      ELSE IF LtNum(y, x) THEN y ELSE x

\* Math.round: the nearest integer, halves rounded towards +Infinity
MathRound(a) ==
  LET x == ToNumber(a)
  IN  IF x.t = "num" THEN Halves(2 * ((x.h + 1) \div 2)) ELSE x

NumberIsNaN(v) == v.t = "nan"

PositiveFinite(a) == a.t = "num" /\ a.h > 0

\* JSON.stringify writes NaN and the infinities as null
JsonNumber(v) == IF v.t \in {"nan", "inf", "ninf"} THEN Null ELSE v

Take(s, n) == SubSeq(s, 1, IF Len(s) < n THEN Len(s) ELSE n)

\* ----------------------------------------------------------- strings
\* A string is a sequence of symbols.  A symbol is one character, or a run of
\* letters or digits that the scanners below never look inside (a word such
\* as "keyPartners"); "NUL" stands for the character U+0000 and "BACKTICK"
\* for the grave accent U+0060.
Whitespace == {" ", "\n", "\r", "\t"}

RECURSIVE TrimStart(_)
TrimStart(s) ==
  IF s # <<>> /\ Head(s) \in Whitespace THEN TrimStart(Tail(s)) ELSE s

RECURSIVE TrimEnd(_)
TrimEnd(s) ==
  IF s # <<>> /\ s[Len(s)] \in Whitespace
  THEN TrimEnd(SubSeq(s, 1, Len(s) - 1))
  ELSE s

\* String.prototype.trim
Trim(s) == TrimEnd(TrimStart(s))

StartsWith(s, c) == s # <<>> /\ s[1] = c
EndsWith(s, c) == s # <<>> /\ s[Len(s)] = c

IsFence(s, i) ==
  /\ i + 2 <= Len(s)
  /\ s[i] = "BACKTICK"
  /\ s[i + 1] = "BACKTICK"
  /\ s[i + 2] = "BACKTICK"

\* The scans below are loops over the indices of a string.  Each loop is a
\* body, a step from the scan's variables st (st.i is the index the loop is
\* at) to their next values, run over the indices lo .. hi in order, first
\* over the lower half of the range and then over the upper half; an index
\* the scan has already moved past is left alone.

\* text.replace(/(3 backticks)json|(3 backticks)/gi, ""): the match at
\* index st.i, or the character there copied
StripFencesBody(s, st) ==
  IF IsFence(s, st.i)
  THEN IF st.i + 3 <= Len(s) /\ s[st.i + 3] \in {"json", "JSON", "Json"}
       THEN [st EXCEPT !.i = @ + 4]
       ELSE [st EXCEPT !.i = @ + 3]
  ELSE [st EXCEPT !.result = Append(@, s[st.i]), !.i = @ + 1]

RECURSIVE StripFencesRun(_, _, _, _)
StripFencesRun(s, st, lo, hi) ==
  IF lo > hi THEN st
  ELSE IF lo = hi THEN IF st.i = lo THEN StripFencesBody(s, st) ELSE st
  ELSE LET mid == (lo + hi) \div 2
           left == StripFencesRun(s, st, lo, mid)
       IN  IF left.i > mid THEN StripFencesRun(s, left, mid + 1, hi) ELSE left

StripFences(s) ==
  StripFencesRun(s, [result |-> <<>>, i |-> 1], 1, Len(s)).result

FirstIndex(s, c) ==
  IF \E i \in DOMAIN s : s[i] = c
  THEN CHOOSE i \in DOMAIN s : s[i] = c /\ \A j \in 1 .. i - 1 : s[j] # c
  ELSE 0

LastIndex(s, c) ==
  IF \E i \in DOMAIN s : s[i] = c
  THEN CHOOSE i \in DOMAIN s : s[i] = c /\ \A j \in i + 1 .. Len(s) : s[j] # c
  ELSE 0

\* sanitized.match(/\{[\s\S]*\}/): from the first "{" to the last "}" after it
JsonSegment(s) ==
  LET a == FirstIndex(s, "{")
      b == LastIndex(s, "}")
  IN  IF a > 0 /\ b > a THEN SubSeq(s, a, b) ELSE s

\* sanitized.replace(/\r\n?/g, "\n")
NormalizeBody(s, st) ==
  IF s[st.i] = "\r"
  THEN IF st.i + 1 <= Len(s) /\ s[st.i + 1] = "\n"
       THEN [st EXCEPT !.result = Append(@, "\n"), !.i = @ + 2]
       ELSE [st EXCEPT !.result = Append(@, "\n"), !.i = @ + 1]
  ELSE [st EXCEPT !.result = Append(@, s[st.i]), !.i = @ + 1]

RECURSIVE NormalizeRun(_, _, _, _)
NormalizeRun(s, st, lo, hi) ==
  IF lo > hi THEN st
  ELSE IF lo = hi THEN IF st.i = lo THEN NormalizeBody(s, st) ELSE st
  ELSE LET mid == (lo + hi) \div 2
           left == NormalizeRun(s, st, lo, mid)
       IN  IF left.i > mid THEN NormalizeRun(s, left, mid + 1, hi) ELSE left

NormalizeNewlines(s) ==
  NormalizeRun(s, [result |-> <<>>, i |-> 1], 1, Len(s)).result

\* sanitized.replace(/\u0000/g, "")
StripNul(s) == SelectSeq(s, LAMBDA c : c # "NUL")

\* the while loop of removeTrailingCommas: the first index >= j that does not
\* hold whitespace
RECURSIVE SkipWhitespace(_, _)
SkipWhitespace(s, j) ==
  IF j <= Len(s) /\ s[j] \in Whitespace THEN SkipWhitespace(s, j + 1) ELSE j

\* the loop body without its test of inString
RemoveCommasBody_NotStringAware(input, st) ==
  LET char == input[st.i]
      j == SkipWhitespace(input, st.i + 1)
  IN  IF st.escaping
      THEN [st EXCEPT !.result = Append(@, char), !.escaping = FALSE,
                      !.i = @ + 1]
      ELSE IF char = "\\"
      THEN [st EXCEPT !.result = Append(@, char), !.escaping = TRUE,
                      !.i = @ + 1]
      ELSE IF char = "\""
      THEN [st EXCEPT !.inString = ~@, !.result = Append(@, char),
                      !.i = @ + 1]
      ELSE IF char = "," /\ j <= Len(input) /\ input[j] \in {"}", "]"}
      THEN [st EXCEPT !.i = j]
      ELSE [st EXCEPT !.result = Append(@, char), !.i = @ + 1]

\* the body of removeTrailingCommas's for loop at index st.i
RemoveCommasBody(input, st) ==
  LET char == input[st.i]
      j == SkipWhitespace(input, st.i + 1)
  IN  IF st.escaping
      THEN [st EXCEPT !.result = Append(@, char), !.escaping = FALSE,
                      !.i = @ + 1]
      ELSE IF char = "\\"
      THEN [st EXCEPT !.result = Append(@, char), !.escaping = TRUE,
                      !.i = @ + 1]
      ELSE IF char = "\""
      THEN [st EXCEPT !.inString = ~@, !.result = Append(@, char),
                      !.i = @ + 1]
      ELSE IF ~st.inString /\ char = "," /\ j <= Len(input)
              /\ input[j] \in {"}", "]"}
      THEN [st EXCEPT !.i = j]
      ELSE [st EXCEPT !.result = Append(@, char), !.i = @ + 1]

RECURSIVE RemoveCommasRun(_, _, _, _)
RemoveCommasRun(input, st, lo, hi) ==
  IF lo > hi THEN st
  ELSE IF lo = hi THEN IF st.i = lo THEN RemoveCommasBody(input, st) ELSE st
  ELSE LET mid == (lo + hi) \div 2
           left == RemoveCommasRun(input, st, lo, mid)
       IN  IF left.i > mid THEN RemoveCommasRun(input, left, mid + 1, hi)
           ELSE left

removeTrailingCommas(input) ==
  RemoveCommasRun(input,
                  [result |-> <<>>, inString |-> FALSE, escaping |-> FALSE,
                   i |-> 1],
                  1, Len(input)).result

sanitizeJsonText(text) ==
  LET stripped == Trim(StripFences(text))
      segment == IF StartsWith(stripped, "{") THEN stripped
                 ELSE JsonSegment(stripped)
  IN  Trim(removeTrailingCommas(StripNul(NormalizeNewlines(segment))))

\* the loop body without "if (inString) continue"
BalancedBody_CountsInString(json, st) ==
  LET char == json[st.i]
  IN  IF st.failed THEN [st EXCEPT !.i = @ + 1]
      ELSE IF st.escaping THEN [st EXCEPT !.escaping = FALSE, !.i = @ + 1]
      ELSE IF char = "\\" THEN [st EXCEPT !.escaping = TRUE, !.i = @ + 1]
      ELSE IF char = "\"" THEN [st EXCEPT !.inString = ~@, !.i = @ + 1]
      ELSE IF char = "{" THEN [st EXCEPT !.depth = @ + 1, !.i = @ + 1]
      ELSE IF char = "}"
      THEN [st EXCEPT !.depth = @ - 1, !.failed = st.depth - 1 < 0,
                      !.i = @ + 1]
      ELSE [st EXCEPT !.i = @ + 1]

\* the body of hasBalancedDelimiters's for loop at index st.i; st.failed is
\* the early "return false"
BalancedBody(json, st) ==
  LET char == json[st.i]
  IN  IF st.failed THEN [st EXCEPT !.i = @ + 1]
      ELSE IF st.escaping THEN [st EXCEPT !.escaping = FALSE, !.i = @ + 1]
      ELSE IF char = "\\" THEN [st EXCEPT !.escaping = TRUE, !.i = @ + 1]
      ELSE IF char = "\"" THEN [st EXCEPT !.inString = ~@, !.i = @ + 1]
      ELSE IF st.inString THEN [st EXCEPT !.i = @ + 1]
      ELSE IF char = "{" THEN [st EXCEPT !.depth = @ + 1, !.i = @ + 1]
      ELSE IF char = "}"
      THEN [st EXCEPT !.depth = @ - 1, !.failed = st.depth - 1 < 0,
                      !.i = @ + 1]
      ELSE [st EXCEPT !.i = @ + 1]

RECURSIVE BalancedRun(_, _, _, _)
BalancedRun(json, st, lo, hi) ==
  IF lo > hi THEN st
  ELSE IF lo = hi THEN IF st.i = lo THEN BalancedBody(json, st) ELSE st
  ELSE LET mid == (lo + hi) \div 2
           left == BalancedRun(json, st, lo, mid)
       IN  IF left.i > mid THEN BalancedRun(json, left, mid + 1, hi) ELSE left

hasBalancedDelimiters(json) ==
  LET st == BalancedRun(json,
                        [depth |-> 0, inString |-> FALSE, escaping |-> FALSE,
                         failed |-> FALSE, i |-> 1],
                        1, Len(json))
  IN  ~st.failed /\ st.depth = 0 /\ ~st.inString

isLikelyTruncated(json) ==
  LET trimmed == Trim(json)
  IN  IF trimmed = <<>> THEN TRUE
      ELSE IF ~StartsWith(trimmed, "{") \/ ~EndsWith(trimmed, "}") THEN TRUE
      ELSE ~hasBalancedDelimiters(trimmed)

\* ------------------------------------------------------------- JSON.parse
\* Parsed values: JStr, JObj (a function from keys to values), JArr, Num and
\* Null.  The words of the alphabet that may stand outside a string literal
\* are the digit runs; every other word there is a syntax error.
JStr(s) == [t |-> "str", s |-> s]
JObj(o) == [t |-> "obj", o |-> o]
JArr(a) == [t |-> "arr", a |-> a]

EmptyObject == [k \in {} |-> Null]

DigitValue == [x \in {"7"} |-> 7]

\* what follows a backslash inside a string literal, and what it decodes to
Unescape ==
  [x \in {"\"", "\\", "/", "revenueModel"} |->
     IF x = "revenueModel" THEN <<"\r", "evenueModel">> ELSE <<x>>]

ControlChars == {"\n", "\r", "\t", "NUL"}

ParseFail == [ok |-> FALSE, v |-> Null, next |-> 0]
ParseOk(v, next) == [ok |-> TRUE, v |-> v, next |-> next]

RECURSIVE ParseStringBody(_, _, _)
ParseStringBody(s, i, acc) ==
  IF i > Len(s) THEN ParseFail
  ELSE IF s[i] = "\"" THEN ParseOk(acc, i + 1)
  ELSE IF s[i] = "\\"
       THEN IF i + 1 <= Len(s) /\ s[i + 1] \in DOMAIN Unescape
            THEN ParseStringBody(s, i + 2, acc \o Unescape[s[i + 1]])
            ELSE ParseFail
  ELSE IF s[i] \in ControlChars THEN ParseFail
  ELSE ParseStringBody(s, i + 1, Append(acc, s[i]))

RECURSIVE ParseDigits(_, _, _)
ParseDigits(s, i, acc) ==
  IF i <= Len(s) /\ s[i] \in DOMAIN DigitValue
  THEN ParseDigits(s, i + 1, 10 * acc + DigitValue[s[i]])
  ELSE ParseOk(Num(acc), i)

RECURSIVE ParseValue(_, _)
RECURSIVE ParseMembers(_, _, _)
RECURSIVE ParseElements(_, _, _)

ParseValue(s, i0) ==
  LET i == SkipWhitespace(s, i0)
  IN  IF i > Len(s) THEN ParseFail
      ELSE IF s[i] = "\""
           THEN LET r == ParseStringBody(s, i + 1, <<>>)
                IN  IF r.ok THEN ParseOk(JStr(r.v), r.next) ELSE ParseFail
      ELSE IF s[i] \in DOMAIN DigitValue THEN ParseDigits(s, i, 0)
      ELSE IF s[i] = "{"
           THEN LET j == SkipWhitespace(s, i + 1)
                IN  IF j <= Len(s) /\ s[j] = "}"
                    THEN ParseOk(JObj(EmptyObject), j + 1)
                    ELSE ParseMembers(s, j, EmptyObject)
      ELSE IF s[i] = "["
           THEN LET j == SkipWhitespace(s, i + 1)
                IN  IF j <= Len(s) /\ s[j] = "]"
                    THEN ParseOk(JArr(<<>>), j + 1)
                    ELSE ParseElements(s, j, <<>>)
      ELSE ParseFail

\* "key" : value, then "," and more members or "}"; a repeated key keeps the
\* last value
ParseMembers(s, j, acc) ==
  IF j > Len(s) \/ s[j] # "\"" THEN ParseFail
  ELSE LET key == ParseStringBody(s, j + 1, <<>>)
           c == IF key.ok THEN SkipWhitespace(s, key.next) ELSE 0
           val == IF key.ok /\ c <= Len(s) /\ s[c] = ":"
                  THEN ParseValue(s, c + 1)
                  ELSE ParseFail
           m == IF val.ok THEN SkipWhitespace(s, val.next) ELSE 0
       IN  IF ~val.ok \/ m > Len(s) THEN ParseFail
           ELSE LET obj == (key.v :> val.v) @@ acc
                IN  IF s[m] = "}" THEN ParseOk(JObj(obj), m + 1)
                    ELSE IF s[m] = ","
                         THEN ParseMembers(s, SkipWhitespace(s, m + 1), obj)
                         ELSE ParseFail

ParseElements(s, j, acc) ==
  LET val == ParseValue(s, j)
      m == IF val.ok THEN SkipWhitespace(s, val.next) ELSE 0
  IN  IF ~val.ok \/ m > Len(s) THEN ParseFail
      ELSE IF s[m] = "]" THEN ParseOk(JArr(Append(acc, val.v)), m + 1)
      ELSE IF s[m] = "," THEN ParseElements(s, m + 1, Append(acc, val.v))
      ELSE ParseFail

\* JSON.parse(text): ok is FALSE where it throws SyntaxError
JsonParse(text) ==
  LET r == ParseValue(text, 1)
  IN  IF r.ok /\ SkipWhitespace(text, r.next) > Len(text) THEN r ELSE ParseFail

\* -------------------------------------------------------- responseSchema
CANVAS_KEYS ==
  {<<"keyPartners">>, <<"keyActivities">>, <<"valuePropositions">>,
   <<"customerRelationships">>, <<"customerSegments">>, <<"keyResources">>,
   <<"channels">>, <<"costStructure">>, <<"revenueModel">>}

\* the issues of z.string().trim().min(1): the empty string is one as well
SchemaIssues_NonEmpty(v) ==
  IF v.t # "obj" THEN {<<>>}
  ELSE {k \in CANVAS_KEYS :
          k \notin DOMAIN v.o \/ v.o[k].t # "str" \/ Trim(v.o[k].s) = <<>>}

\* the keys zod reports an issue for
SchemaIssues(v) ==
  IF v.t # "obj" THEN {<<>>}
  ELSE {k \in CANVAS_KEYS : k \notin DOMAIN v.o \/ v.o[k].t # "str"}

\* z.string() without .trim()
safeParse_NoTrim(v) ==
  IF SchemaIssues(v) = {}
  THEN [success |-> TRUE, data |-> [k \in CANVAS_KEYS |-> v.o[k].s]]
  ELSE [success |-> FALSE, data |-> EmptyObject]

\* responseSchema.safeParse(v): unknown keys are stripped, strings trimmed
safeParse(v) ==
  IF SchemaIssues(v) = {}
  THEN [success |-> TRUE, data |-> [k \in CANVAS_KEYS |-> Trim(v.o[k].s)]]
  ELSE [success |-> FALSE, data |-> EmptyObject]

\* --------------------------------------------------- extractModelPayload
Throws == [t |-> "throws"]

Falsy(v) ==
  \/ v.t \in {"undef", "null", "nan"}
  \/ v = Num(0)
  \/ v = JStr(<<>>)

JsonKey == <<"json">>

\* Object.keys(record).length
KeyCount(v) == IF v.t = "arr" THEN Len(v.a) ELSE Cardinality(DOMAIN v.o)

\* extractFromArgs(value): Null is the JavaScript null it returns
extractFromArgs(value) ==
  IF Falsy(value) THEN Null
  ELSE IF value.t = "str"
       THEN IF Trim(value.s) # <<>> THEN JStr(Trim(value.s)) ELSE Null
  ELSE IF value.t \in {"obj", "arr"}
       THEN IF value.t = "obj" /\ JsonKey \in DOMAIN value.o
                 /\ value.o[JsonKey].t = "str"
            THEN IF Trim(value.o[JsonKey].s) # <<>>
                 THEN JStr(Trim(value.o[JsonKey].s))
                 ELSE Null
            ELSE IF value.t = "obj" /\ JsonKey \in DOMAIN value.o
                      /\ value.o[JsonKey].t \in {"obj", "arr"}
                 THEN value.o[JsonKey]
                 ELSE IF KeyCount(value) > 0 THEN value ELSE Null
  ELSE Null

\* one iteration of the loop over candidate.content.parts
PartPayload(part) ==
  IF part.text.t = "str"
  THEN IF Trim(part.text.s) # <<>> THEN JStr(Trim(part.text.s)) ELSE Null
  ELSE IF part.functionCall.t # "undef"
       THEN extractFromArgs(part.functionCall.args)
  ELSE IF part.functionResponse.t # "undef"
       THEN extractFromArgs(part.functionResponse.response)
  ELSE Null

\* the first element of payloads that is not null, else null
RECURSIVE FirstUsable(_)
FirstUsable(payloads) ==
  IF payloads = <<>> THEN Null
  ELSE IF Head(payloads) # Null THEN Head(payloads)
  ELSE FirstUsable(Tail(payloads))

RECURSIVE AllParts(_)
AllParts(candidates) ==
  IF candidates = <<>> THEN <<>>
  ELSE Head(candidates).parts \o AllParts(Tail(candidates))

\* extractModelPayload looking at the candidate parts before the function calls
extractModelPayload_PartsFirst(aiResponse) ==
  LET fromText ==
        IF aiResponse.text.t = "str" /\ Trim(aiResponse.text.s) # <<>>
        THEN JStr(Trim(aiResponse.text.s))
        ELSE Null
      calls == aiResponse.functionCalls
      fromCalls ==
        IF calls.t = "arr"
        THEN FirstUsable([i \in DOMAIN calls.a |->
                            extractFromArgs(calls.a[i].args)])
        ELSE Null
      parts == AllParts(aiResponse.candidates)
      fromParts == FirstUsable([i \in DOMAIN parts |-> PartPayload(parts[i])])
  IN  IF fromText # Null THEN [threw |-> FALSE, payload |-> fromText]
      ELSE IF calls.t = "throws" THEN [threw |-> TRUE, payload |-> Null]
      ELSE IF fromParts # Null THEN [threw |-> FALSE, payload |-> fromParts]
      ELSE [threw |-> FALSE, payload |-> fromCalls]

\* extractModelPayload(aiResponse): threw is TRUE where functionCalls() throws
extractModelPayload(aiResponse) ==
  LET fromText ==
        IF aiResponse.text.t = "str" /\ Trim(aiResponse.text.s) # <<>>
        THEN JStr(Trim(aiResponse.text.s))
        ELSE Null
      calls == aiResponse.functionCalls
      fromCalls ==
        IF calls.t = "arr"
        THEN FirstUsable([i \in DOMAIN calls.a |->
                            extractFromArgs(calls.a[i].args)])
        ELSE Null
      parts == AllParts(aiResponse.candidates)
      fromParts == FirstUsable([i \in DOMAIN parts |-> PartPayload(parts[i])])
  IN  IF fromText # Null THEN [threw |-> FALSE, payload |-> fromText]
      ELSE IF calls.t = "throws" THEN [threw |-> TRUE, payload |-> Null]
      ELSE IF fromCalls # Null THEN [threw |-> FALSE, payload |-> fromCalls]
      ELSE [threw |-> FALSE, payload |-> fromParts]

\* ------------------------------------------------------------------ state
VARIABLES
  file,    \* token-usage.json: missing, text that is not JSON, or a document
  file0,   \* token-usage.json as it was when the process started
  clock,   \* the wall clock read by new Date()
  led,     \* per caller: the tokenTracker call it is inside, and where
  ncalls,  \* number of ledger calls started by the direct callers
  log,     \* the ledger calls that returned, with what they returned
  req,     \* per caller: the generateCanvas request it is handling
  input,   \* the argument a helper function is called with on its own
  output   \* what the helper returned for it

vars == <<file, file0, clock, led, ncalls, log, req, input, output>>

\* no helper has been called on its own
NoOutput == [fn |-> "none"]

Callers == 1 .. NumCallers

\* ------------------------------------------------------ token-usage.json
Missing == [k |-> "missing"]
NotJson == [k |-> "text"]
Doc(used, history) == [k |-> "doc", used |-> used, history |-> history]

State(used, history) == [used |-> used, history |-> history]

\* JSON.stringify(state, null, 2)
JsonStringify(state) ==
  Doc(JsonNumber(state.used),
      [i \in DOMAIN state.history |->
         [timestamp |-> state.history[i].timestamp,
          tokens |-> JsonNumber(state.history[i].tokens),
          topic |-> state.history[i].topic]])

\* a file holding a JSON object without a history property: {} when used is
\* Undefined, {"used": null}, {"used": 100}
Obj(used) == [k |-> "obj", used |-> used]
\* a file holding the JSON text null
JsonNull == [k |-> "null"]

\* readState's try { JSON.parse(data) } catch { default }: whatever parses is
\* returned as it is
ParseState(data) ==
  CASE data.k = "doc" -> State(data.used, data.history)
    [] data.k = "obj" -> [used |-> data.used]
    [] data.k = "null" -> Null
    [] OTHER -> State(Num(0), <<>>)

\* the promise of a ledger call rejected with a TypeError
Rejected == [threw |-> "TypeError"]

\* the snapshot without the clamp at 0
SnapshotOf_Unclamped(used) ==
  [allowance |-> Num(TOKEN_ALLOWANCE),
   used |-> used,
   remaining |-> JsSub(Num(TOKEN_ALLOWANCE), used)]

SnapshotOf(used) ==
  [allowance |-> Num(TOKEN_ALLOWANCE),
   used |-> used,
   remaining |-> MathMax(Num(0), JsSub(Num(TOKEN_ALLOWANCE), used))]

NoFrame ==
  [pc |-> "none", fn |-> "none", op |-> "none", amount |-> Num(0), topic |-> <<>>,
   state |-> State(Num(0), <<>>), pending |-> Missing, after |-> "none",
   result |-> SnapshotOf(Num(0)), before |-> Missing]

\* getTokenSnapshot(), up to its first await (fs.access)
EnterSnapshot(amount, topic) ==
  [NoFrame EXCEPT !.pc = "access", !.fn = "getTokenSnapshot",
                  !.op = "snapshot", !.amount = amount, !.topic = topic,
                  !.before = file]

\* recordTokenUsage(amount, topic), up to its first await
EnterRecord(amount, topic) ==
  IF NumberIsNaN(amount) \/ JsLe(amount, Num(0))
  THEN [EnterSnapshot(amount, topic) EXCEPT !.fn = "recordTokenUsage"]
  ELSE [NoFrame EXCEPT !.pc = "access", !.fn = "recordTokenUsage",
                       !.op = "record", !.amount = amount, !.topic = topic,
                       !.before = file]

\* ensureStorageFile: fs.access settles
FsAccess(p) ==
  /\ led[p].pc = "access"
  /\ led' = [led EXCEPT ![p] =
       IF file.k = "missing"
       THEN [@ EXCEPT !.pc = "wopen", !.after = "read",
                      !.pending = JsonStringify(State(Num(0), <<>>))]
       ELSE [@ EXCEPT !.pc = "read"]]
  /\ UNCHANGED <<input, output, file, file0, clock, ncalls, log, req>>

\* fs.writeFile opens the file with flag "w": it now exists and is empty
FsWriteOpen(p) ==
  /\ led[p].pc = "wopen"
  /\ file' = NotJson
  /\ led' = [led EXCEPT ![p].pc = "wdata"]
  /\ UNCHANGED <<input, output, file0, clock, ncalls, log, req>>

\* fs.writeFile writes the text and settles; writeState's caller resumes
FsWriteData(p) ==
  /\ led[p].pc = "wdata"
  /\ file' = led[p].pending
  /\ led' = [led EXCEPT ![p] =
       IF @.after = "read" THEN [@ EXCEPT !.pc = "read"]
       ELSE [@ EXCEPT !.pc = "ret", !.result = SnapshotOf(led[p].state.used)]]
  /\ UNCHANGED <<input, output, file0, clock, ncalls, log, req>>

\* the update without the slice(0, 20)
Updated_Unbounded(state, amount, topic, now) ==
  State(JsAdd(state.used, amount),
        <<[timestamp |-> now, tokens |-> MathRound(amount),
           topic |-> topic]>> \o state.history)

\* the new record put after the old history
Updated_Appended(state, amount, topic, now) ==
  State(JsAdd(state.used, amount),
        Take(state.history \o <<[timestamp |-> now,
                                 tokens |-> MathRound(amount),
                                 topic |-> topic]>>, HISTORY_LIMIT))

\* recordTokenUsage between readState and writeState
Updated(state, amount, topic, now) ==
  State(JsAdd(state.used, amount),
        Take(<<[timestamp |-> now, tokens |-> MathRound(amount),
                topic |-> topic]>> \o state.history, HISTORY_LIMIT))

\* fs.readFile settles; the caller runs on to its next await, its return or
\* its throw: state.used of null (lines 41, 55) and state.history.unshift of
\* an object without history (line 58) are TypeErrors
FsReadFile(p) ==
  /\ led[p].pc = "read"
  /\ file.k # "missing"
  /\ LET state == ParseState(file)
     IN  IF state = Null \/ (led[p].op = "record" /\ "history" \notin DOMAIN state)
         THEN /\ led' = [led EXCEPT ![p] =
                   [@ EXCEPT !.pc = "ret", !.state = state,
                             !.result = Rejected]]
              /\ clock' = clock
         ELSE IF led[p].op = "snapshot"
         THEN /\ led' = [led EXCEPT ![p] =
                   [@ EXCEPT !.pc = "ret", !.state = state,
                             !.result = SnapshotOf(state.used)]]
              /\ clock' = clock
         ELSE LET upd == Updated(state, led[p].amount, led[p].topic, clock)
              IN  /\ led' = [led EXCEPT ![p] =
                       [@ EXCEPT !.pc = "wopen", !.after = "ret",
                                 !.state = upd,
                                 !.pending = JsonStringify(upd)]]
                  /\ clock' = clock + 1
  /\ UNCHANGED <<input, output, file, file0, ncalls, log, req>>

\* ------------------------------------------------ generateCanvas: POST
PRIMARY_MAX_OUTPUT_TOKENS == 2500
COMPACT_MAX_OUTPUT_TOKENS == 1500

\* a compact attempt configured with no output tokens
attemptConfigs_ZeroCompact ==
  <<[compact |-> FALSE, maxOutputTokens |-> PRIMARY_MAX_OUTPUT_TOKENS,
     label |-> "primary"],
    [compact |-> TRUE, maxOutputTokens |-> 0, label |-> "compact"]>>

attemptConfigs ==
  <<[compact |-> FALSE, maxOutputTokens |-> PRIMARY_MAX_OUTPUT_TOKENS,
     label |-> "primary"],
    [compact |-> TRUE, maxOutputTokens |-> COMPACT_MAX_OUTPUT_TOKENS,
     label |-> "compact"]>>

MsgMissingKey == "Missing GOOGLE_GEMINI_API_KEY."
MsgInvalidBody == "Invalid JSON body."
MsgFieldErrors == "fieldErrors"
MsgExhausted ==
  "Token allowance exhausted. Regenerate allowance before making new requests."
MsgExhaustedDuring ==
  "Token allowance exhausted while generating the Business Model Canvas. Please refresh your allowance and try again."
MsgDefault ==
  "The AI response was not valid JSON. Please try generating the Business Model Canvas again."
MsgEmpty(compact) ==
  IF compact
  THEN "The AI returned an empty response. Please try generating the Business Model Canvas again."
  ELSE "The AI returned an empty response. Retrying with a more concise prompt."
MsgTruncated(compact) ==
  IF compact
  THEN "The AI response was incomplete even after retrying. Please try again."
  ELSE "The AI response looked incomplete. Retrying with a more concise prompt."
MsgParse(compact) ==
  IF compact
  THEN "The AI response was still invalid JSON after retrying. Please try again."
  ELSE "The AI response was not valid JSON. Retrying with a more concise prompt."
MsgSchema(compact) ==
  IF compact
  THEN "The AI response was missing required Business Model Canvas fields even after retrying. Please try again."
  ELSE "The AI response was missing required Business Model Canvas fields. Retrying with a more concise prompt."
MsgRejected ==
  "Gemini rejected the request. Confirm your API key is valid and has access to the selected model."
MsgFailed == "Business Model Canvas generation failed. Please try again later."

SuccessLabel(topic) == topic \o <<" (Business Model Canvas)">>
FailedLabel(topic) == topic \o <<" (Business Model Canvas - failed)">>

IdleReq ==
  [pc |-> "idle", entered |-> FALSE, topic |-> <<>>,
   snapshotBefore |-> SnapshotOf(Num(0)),
   availableTokens |-> Num(0), tokensUsedTotal |-> Num(0),
   lastErrorMessage |-> MsgDefault, lastStatus |-> 502,
   attempt |-> 0, path |-> "none", canvas |-> EmptyObject,
   error |-> [status |-> Undefined], calls |-> <<>>,
   response |-> [status |-> 0]]

\* requestSchema.safeParse(json): topic and reportText are strings whose
\* trimmed lengths are at least 2 and 50
RequestValid(body) ==
  /\ body.json
  /\ body.topic.t = "str"
  /\ Len(Trim(body.topic.s)) >= 2
  /\ body.reportText.t = "str"
  /\ Len(Trim(body.reportText.s)) >= 50

\* the gate with < in place of <=
BudgetExhausted_Negative(snapshot) ==
  ~NumberIsNaN(snapshot.remaining) /\ LtNum(snapshot.remaining, Num(0))

\* snapshotBefore.remaining <= 0
BudgetExhausted(snapshot) == JsLe(snapshot.remaining, Num(0))

\* the ceiling without the clamp by the budget the request still sees
MaxTokensThisAttempt_Uncapped(attempt, availableTokens) ==
  Num(attempt.maxOutputTokens)

\* the ceiling without the clamp by the attempt's own maximum
MaxTokensThisAttempt_BudgetOnly(attempt, availableTokens) == availableTokens

\* Math.min(attempt.maxOutputTokens, availableTokens)
MaxTokensThisAttempt(attempt, availableTokens) ==
  MathMin(Num(attempt.maxOutputTokens), availableTokens)

\* response.response.usageMetadata?.totalTokenCount ?? 0
TokensUsedOf(usage) == IF usage.t \in {"undef", "null"} THEN Num(0) ELSE usage

\* = in place of +=
Accumulate_Overwrite(tokensUsedTotal, tokensUsed) == tokensUsed

\* tokensUsedTotal += tokensUsed
Accumulate(tokensUsedTotal, tokensUsed) == JsAdd(tokensUsedTotal, tokensUsed)

\* availableTokens left as it was
StillAvailable_Unchanged(availableTokens, tokensUsed) == availableTokens

\* availableTokens = Math.max(0, availableTokens - tokensUsed)
StillAvailable(availableTokens, tokensUsed) ==
  MathMax(Num(0), JsSub(availableTokens, tokensUsed))

\* the same configuration again
NextAttempt_Same(i) == i

\* the for loop's step to the next entry of attemptConfigs
NextAttempt(i) == i + 1

\* the catch block ignoring error.status
CatchStatus_Always502(error) == 502

\* the status of the catch block's response
CatchStatus(error) ==
  IF error.status.t \in {"num", "nan", "inf", "ninf"}
  THEN error.status.h \div 2
  ELSE 502

\* The for loop from its i-th iteration up to the next await: either callModel
\* is invoked (pc "model") or the loop is left (pc "exit").
RECURSIVE LoopFrom(_, _)
LoopFrom(r, i) ==
  IF i > Len(attemptConfigs) THEN [r EXCEPT !.pc = "exit"]
  ELSE IF JsLe(r.availableTokens, Num(0))
       THEN [r EXCEPT !.pc = "exit", !.lastErrorMessage = MsgExhaustedDuring,
                      !.lastStatus = 429]
  ELSE LET maxTokens ==
             MaxTokensThisAttempt(attemptConfigs[i], r.availableTokens)
       IN  IF JsLe(maxTokens, Num(0)) THEN LoopFrom(r, NextAttempt(i))
           ELSE [r EXCEPT !.pc = "model", !.attempt = i,
                          !.calls = Append(@,
                            [label |-> attemptConfigs[i].label,
                             maxOutputTokens |-> maxTokens,
                             availableTokens |-> r.availableTokens,
                             settled |-> "pending",
                             tokensUsed |-> Num(0),
                             aiResponse |-> Null])]

\* "break" on every attempt
StopIfLast_Always(r, i) == [r EXCEPT !.pc = "exit"]

\* "break" when this was the compact attempt, else "continue"
StopIfLast(r, i) ==
  IF attemptConfigs[i].compact THEN [r EXCEPT !.pc = "exit"]
  ELSE LoopFrom(r, NextAttempt(i))

\* the loop body putting every payload through JSON decoding, which an
\* object does not pass
AfterCall_DecodeAll(r0, aiResponse, usage) ==
  LET i == r0.attempt
      compact == attemptConfigs[i].compact
      tokensUsed == TokensUsedOf(usage)
      r == [r0 EXCEPT
              !.tokensUsedTotal = Accumulate(@, tokensUsed),
              !.availableTokens = StillAvailable(@, tokensUsed),
              !.calls[Len(r0.calls)] =
                 [@ EXCEPT !.settled = "returned", !.tokensUsed = tokensUsed,
                           !.aiResponse = aiResponse]]
      extracted == extractModelPayload(aiResponse)
      rawPayload == extracted.payload
      sanitized == sanitizeJsonText(rawPayload.s)
      decoded == JsonParse(sanitized)
      parsedJson == IF rawPayload.t = "str" THEN decoded.v ELSE rawPayload
      canvasResult == safeParse(parsedJson)
  IN  IF extracted.threw
      THEN [r EXCEPT !.pc = "catch", !.error = [status |-> Undefined]]
      ELSE IF rawPayload = Null
      THEN LoopFrom([r EXCEPT !.lastErrorMessage = MsgEmpty(compact)],
                    NextAttempt(i))
      ELSE IF rawPayload.t # "str"
      THEN StopIfLast([r EXCEPT !.lastErrorMessage = MsgParse(compact)], i)
      ELSE IF rawPayload.t = "str" /\ isLikelyTruncated(sanitized)
      THEN StopIfLast([r EXCEPT !.lastErrorMessage = MsgTruncated(compact)], i)
      ELSE IF rawPayload.t = "str" /\ ~decoded.ok
      THEN StopIfLast([r EXCEPT !.lastErrorMessage = MsgParse(compact)], i)
      ELSE IF ~canvasResult.success
      THEN StopIfLast([r EXCEPT !.lastErrorMessage = MsgSchema(compact)], i)
      ELSE [r EXCEPT !.pc = "success", !.canvas = canvasResult.data]

\* The loop body after callModel has returned, up to the next await.
AfterCall(r0, aiResponse, usage) ==
  LET i == r0.attempt
      compact == attemptConfigs[i].compact
      tokensUsed == TokensUsedOf(usage)
      r == [r0 EXCEPT
              !.tokensUsedTotal = Accumulate(@, tokensUsed),
              !.availableTokens = StillAvailable(@, tokensUsed),
              !.calls[Len(r0.calls)] =
                 [@ EXCEPT !.settled = "returned", !.tokensUsed = tokensUsed,
                           !.aiResponse = aiResponse]]
      extracted == extractModelPayload(aiResponse)
      rawPayload == extracted.payload
      sanitized == sanitizeJsonText(rawPayload.s)
      decoded == JsonParse(sanitized)
      parsedJson == IF rawPayload.t = "str" THEN decoded.v ELSE rawPayload
      canvasResult == safeParse(parsedJson)
  IN  IF extracted.threw
      THEN [r EXCEPT !.pc = "catch", !.error = [status |-> Undefined]]
      ELSE IF rawPayload = Null
      THEN LoopFrom([r EXCEPT !.lastErrorMessage = MsgEmpty(compact)],
                    NextAttempt(i))
      ELSE IF rawPayload.t = "str" /\ isLikelyTruncated(sanitized)
      THEN StopIfLast([r EXCEPT !.lastErrorMessage = MsgTruncated(compact)], i)
      ELSE IF rawPayload.t = "str" /\ ~decoded.ok
      THEN StopIfLast([r EXCEPT !.lastErrorMessage = MsgParse(compact)], i)
      ELSE IF ~canvasResult.success
      THEN StopIfLast([r EXCEPT !.lastErrorMessage = MsgSchema(compact)], i)
      ELSE [r EXCEPT !.pc = "success", !.canvas = canvasResult.data]

\* the spend committed on success only
CommitFrame_SuccessOnly(r) ==
  IF r.pc = "success"
  THEN EnterRecord(r.tokensUsedTotal, SuccessLabel(r.topic))
  ELSE EnterSnapshot(Num(0), <<>>)

\* a failure charged at least one token
CommitFrame_MinimumCharge(r) ==
  IF r.pc = "success"
  THEN EnterRecord(r.tokensUsedTotal, SuccessLabel(r.topic))
  ELSE EnterRecord(MathMax(r.tokensUsedTotal, Num(1)), FailedLabel(r.topic))

\* The ledger call a request makes where it commits or reports its spend:
\* after the loop, on success and in the catch block.
CommitFrame(r) ==
  IF r.pc = "success"
  THEN EnterRecord(r.tokensUsedTotal, SuccessLabel(r.topic))
  ELSE IF JsGt(r.tokensUsedTotal, Num(0))
       THEN EnterRecord(r.tokensUsedTotal, FailedLabel(r.topic))
       ELSE EnterSnapshot(Num(0), <<>>)

\* the last ledger call never started
Resume_NoLedgerCall(p, r) ==
  IF r.pc = "model"
  THEN /\ req' = [req EXCEPT ![p] = r]
       /\ led' = [led EXCEPT ![p] = NoFrame]
  ELSE /\ req' = [req EXCEPT ![p] = [r EXCEPT !.pc = "commit", !.path = r.pc]]
       /\ led' = [led EXCEPT ![p] = NoFrame]

\* r has reached callModel, or left the loop for its last ledger call
Resume(p, r) ==
  IF r.pc = "model"
  THEN /\ req' = [req EXCEPT ![p] = r]
       /\ led' = [led EXCEPT ![p] = NoFrame]
  ELSE /\ req' = [req EXCEPT ![p] = [r EXCEPT !.pc = "commit", !.path = r.pc]]
       /\ led' = [led EXCEPT ![p] = CommitFrame(r)]

\* POST is invoked: the checks before the pipeline, then getTokenSnapshot()
Post(p, hasKey, body) ==
  /\ req[p].pc = "idle"
  /\ led[p].pc = "none"
  /\ IF ~hasKey
     THEN /\ req' = [req EXCEPT ![p] = [@ EXCEPT !.pc = "done",
                 !.response = [status |-> 500,
                               body |-> [error |-> MsgMissingKey]]]]
          /\ led' = led
     ELSE IF ~body.json
     THEN /\ req' = [req EXCEPT ![p] = [@ EXCEPT !.pc = "done",
                 !.response = [status |-> 400,
                               body |-> [error |-> MsgInvalidBody]]]]
          /\ led' = led
     ELSE IF ~RequestValid(body)
     THEN /\ req' = [req EXCEPT ![p] = [@ EXCEPT !.pc = "done",
                 !.response = [status |-> 400,
                               body |-> [error |-> MsgFieldErrors]]]]
          /\ led' = led
     ELSE /\ req' = [req EXCEPT ![p] = [@ EXCEPT !.pc = "preflight",
                 !.entered = TRUE, !.topic = Trim(body.topic.s)]]
          /\ led' = [led EXCEPT ![p] = EnterSnapshot(Num(0), <<>>)]
  /\ UNCHANGED <<input, output, file, file0, clock, ncalls, log>>

\* getTokenSnapshot() has settled: the pre-flight gate, then the loop
Preflight(p) ==
  /\ req[p].pc = "preflight"
  /\ led[p].pc = "ret"
  /\ LET snapshotBefore == led[p].result
     IN  IF BudgetExhausted(snapshotBefore)
         THEN /\ req' = [req EXCEPT ![p] = [@ EXCEPT !.pc = "done",
                     !.snapshotBefore = snapshotBefore,
                     !.response =
                        [status |-> 429,
                         body |-> [error |-> MsgExhausted,
                                   allowance |-> snapshotBefore.allowance,
                                   used |-> snapshotBefore.used,
                                   remaining |-> snapshotBefore.remaining]]]]
              /\ led' = [led EXCEPT ![p] = NoFrame]
         ELSE Resume(p, LoopFrom(
                [req[p] EXCEPT !.snapshotBefore = snapshotBefore,
                               !.availableTokens = snapshotBefore.remaining,
                               !.tokensUsedTotal = Num(0),
                               !.lastErrorMessage = MsgDefault,
                               !.lastStatus = 502], 1))
  /\ UNCHANGED <<input, output, file, file0, clock, ncalls, log>>

\* model.generateContent resolves
ModelReturns(p, aiResponse, usage) ==
  /\ req[p].pc = "model"
  /\ Resume(p, AfterCall(req[p], aiResponse, usage))
  /\ UNCHANGED <<input, output, file, file0, clock, ncalls, log>>

\* a rejected call taken as one more failed attempt
ModelThrows_Retried(p, error) ==
  /\ req[p].pc = "model"
  /\ Resume(p, LoopFrom(
        [req[p] EXCEPT !.error = error,
           !.calls[Len(req[p].calls)] = [@ EXCEPT !.settled = "threw"]],
        NextAttempt(req[p].attempt)))
  /\ UNCHANGED <<input, output, file, file0, clock, ncalls, log>>

\* model.generateContent rejects
ModelThrows(p, error) ==
  /\ req[p].pc = "model"
  /\ Resume(p, [req[p] EXCEPT !.pc = "catch", !.error = error,
                  !.calls[Len(req[p].calls)] = [@ EXCEPT !.settled = "threw"]])
  /\ UNCHANGED <<input, output, file, file0, clock, ncalls, log>>

\* the success response reporting the remaining of the starting snapshot
ResponseOf_StartingSnapshot(r, snapshot) ==
  IF r.path = "success"
  THEN [status |-> 200,
        body |-> [canvas |-> r.canvas, tokensUsed |-> r.tokensUsedTotal,
                  allowance |-> snapshot.allowance,
                  tokensRemaining |-> r.snapshotBefore.remaining]]
  ELSE IF r.path = "exit"
  THEN [status |-> r.lastStatus,
        body |-> [error |-> r.lastErrorMessage,
                  allowance |-> snapshot.allowance, used |-> snapshot.used,
                  remaining |-> snapshot.remaining]]
  ELSE [status |-> CatchStatus(r.error),
        body |-> [error |-> IF CatchStatus(r.error) = 400 THEN MsgRejected
                            ELSE MsgFailed,
                  allowance |-> snapshot.allowance, used |-> snapshot.used,
                  remaining |-> snapshot.remaining]]

\* the body of the response sent from each of the three exits
ResponseOf(r, snapshot) ==
  IF r.path = "success"
  THEN [status |-> 200,
        body |-> [canvas |-> r.canvas, tokensUsed |-> r.tokensUsedTotal,
                  allowance |-> snapshot.allowance,
                  tokensRemaining |-> snapshot.remaining]]
  ELSE IF r.path = "exit"
  THEN [status |-> r.lastStatus,
        body |-> [error |-> r.lastErrorMessage,
                  allowance |-> snapshot.allowance, used |-> snapshot.used,
                  remaining |-> snapshot.remaining]]
  ELSE [status |-> CatchStatus(r.error),
        body |-> [error |-> IF CatchStatus(r.error) = 400 THEN MsgRejected
                            ELSE MsgFailed,
                  allowance |-> snapshot.allowance, used |-> snapshot.used,
                  remaining |-> snapshot.remaining]]

\* the success commit followed by the catch block's commit
Respond_BilledAgain(p) ==
  /\ req[p].pc = "commit"
  /\ led[p].pc = "ret"
  /\ log' = Append(log, [p |-> p, fn |-> led[p].fn, amount |-> led[p].amount,
                          topic |-> led[p].topic, before |-> led[p].before,
                          after |-> file, result |-> led[p].result])
  /\ IF req[p].path = "success"
     THEN /\ req' = [req EXCEPT ![p] = [@ EXCEPT !.path = "catch"]]
          /\ led' = [led EXCEPT ![p] =
                       CommitFrame([req[p] EXCEPT !.pc = "catch"])]
     ELSE /\ req' = [req EXCEPT ![p] = [@ EXCEPT !.pc = "done",
                       !.response = ResponseOf(req[p], led[p].result)]]
          /\ led' = [led EXCEPT ![p] = NoFrame]
  /\ UNCHANGED <<input, output, file, file0, clock, ncalls>>

\* the last ledger call has settled: the response is returned
Respond(p) ==
  /\ req[p].pc = "commit"
  /\ led[p].pc = "ret"
  /\ req' = [req EXCEPT ![p] = [@ EXCEPT !.pc = "done",
               !.response = ResponseOf(req[p], led[p].result)]]
  /\ log' = Append(log, [p |-> p, fn |-> led[p].fn, amount |-> led[p].amount,
                          topic |-> led[p].topic, before |-> led[p].before,
                          after |-> file, result |-> led[p].result])
  /\ led' = [led EXCEPT ![p] = NoFrame]
  /\ UNCHANGED <<input, output, file, file0, clock, ncalls>>

\* ------------------------------------------------- direct ledger callers
\* Callers of tokenTracker's two exports, each free to run while another
\* caller's file operation is pending.
Amounts == {NaN, Inf, NegInf, Num(0), Num(-5), Num(100), Halves(5)}
Labels == {<<"t">>}
InitUsed == {0, 49900}

InitDoc(u) ==
  IF u = 0 THEN Doc(Num(0), <<>>)
  ELSE Doc(Num(u), <<[timestamp |-> 0, tokens |-> Num(u), topic |-> <<"t">>]>>)

InitFiles == {Missing} \cup {InitDoc(u) : u \in InitUsed}

ClientRecord(p, amount, topic, limit) ==
  /\ led[p].pc = "none"
  /\ ncalls < limit
  /\ led' = [led EXCEPT ![p] = EnterRecord(amount, topic)]
  /\ ncalls' = ncalls + 1
  /\ UNCHANGED <<input, output, file, file0, clock, log, req>>

ClientSnapshot(p, limit) ==
  /\ led[p].pc = "none"
  /\ ncalls < limit
  /\ led' = [led EXCEPT ![p] = EnterSnapshot(Num(0), <<>>)]
  /\ ncalls' = ncalls + 1
  /\ UNCHANGED <<input, output, file, file0, clock, log, req>>

ClientReturn(p) ==
  /\ led[p].pc = "ret"
  /\ log' = Append(log, [p |-> p, fn |-> led[p].fn, amount |-> led[p].amount,
                          topic |-> led[p].topic, before |-> led[p].before,
                          after |-> file, result |-> led[p].result])
  /\ led' = [led EXCEPT ![p] = NoFrame]
  /\ UNCHANGED <<input, output, file, file0, clock, ncalls, req>>

InitLedger ==
  /\ file \in InitFiles
  /\ file0 = file
  /\ clock = 1
  /\ led = [p \in Callers |-> NoFrame]
  /\ ncalls = 0
  /\ log = <<>>
  /\ req = [p \in Callers |-> IdleReq]
  /\ input = <<>>
  /\ output = NoOutput

NextLedger ==
  \E p \in Callers :
    \/ \E a \in Amounts, l \in Labels : ClientRecord(p, a, l, MaxCalls)
    \/ ClientSnapshot(p, MaxCalls)
    \/ ClientReturn(p)
    \/ FsAccess(p)
    \/ FsWriteOpen(p)
    \/ FsWriteData(p)
    \/ FsReadFile(p)

\* Concurrent callers of the ledger
SpecLedger == InitLedger /\ [][NextLedger]_vars

\* One caller at a time: a call returns before the next one starts
NextLedgerSeq ==
  \/ \E a \in Amounts, l \in Labels : ClientRecord(1, a, l, MaxSeqCalls)
  \/ ClientSnapshot(1, MaxSeqCalls)
  \/ ClientReturn(1)
  \/ FsAccess(1)
  \/ FsWriteOpen(1)
  \/ FsWriteData(1)
  \/ FsReadFile(1)

SpecLedgerSeq == InitLedger /\ [][NextLedgerSeq]_vars

\* One caller at a time, on a ledger file that may have been left in any
\* shape: missing, not JSON, or JSON that is not a ledger state
CorruptFiles ==
  {NotJson, JsonNull, Obj(Undefined), Obj(Null), Obj(Num(100)),
   Doc(Null, <<>>)}

InitCorrupt ==
  /\ file \in InitFiles \cup CorruptFiles
  /\ file0 = file
  /\ clock = 1
  /\ led = [p \in Callers |-> NoFrame]
  /\ ncalls = 0
  /\ log = <<>>
  /\ req = [p \in Callers |-> IdleReq]
  /\ input = <<>>
  /\ output = NoOutput

SpecCorrupt == InitCorrupt /\ [][NextLedgerSeq]_vars

\* One caller at a time, on a ledger that may already hold a history of
\* HISTORY_LIMIT - 1 or HISTORY_LIMIT records (the n-th recorded n tokens)
HistoryOf(n) ==
  [i \in 1 .. n |->
     [timestamp |-> 0, tokens |-> Num(n + 1 - i), topic |-> <<"t">>]]

FullFiles ==
  {Doc(Num((n * (n + 1)) \div 2), HistoryOf(n)) :
     n \in {HISTORY_LIMIT - 1, HISTORY_LIMIT}}

InitFull ==
  /\ file \in InitFiles \cup FullFiles
  /\ file0 = file
  /\ clock = 1
  /\ led = [p \in Callers |-> NoFrame]
  /\ ncalls = 0
  /\ log = <<>>
  /\ req = [p \in Callers |-> IdleReq]
  /\ input = <<>>
  /\ output = NoOutput

SpecLedgerFull == InitFull /\ [][NextLedgerSeq]_vars

\* A long run of sequential recordTokenUsage calls from an empty ledger; the
\* k-th call records the amount k, so that every record is recognisable
EmptyFiles == {Missing, Doc(Num(0), <<>>)}

InitHistory ==
  /\ file \in EmptyFiles
  /\ file0 = file
  /\ clock = 1
  /\ led = [p \in Callers |-> NoFrame]
  /\ ncalls = 0
  /\ log = <<>>
  /\ req = [p \in Callers |-> IdleReq]
  /\ input = <<>>
  /\ output = NoOutput

NextHistory ==
  \/ \E l \in Labels : ClientRecord(1, Num(ncalls + 1), l, MaxHistoryCalls)
  \/ ClientReturn(1)
  \/ FsAccess(1)
  \/ FsWriteOpen(1)
  \/ FsWriteData(1)
  \/ FsReadFile(1)

SpecHistory == InitHistory /\ [][NextHistory]_vars

\* ------------------------------------------- one generateCanvas request
\* What the request and the model may be: request bodies, responses of
\* model.generateContent with their usageMetadata.totalTokenCount, and the
\* errors it rejects with.
Q == "\""

CanvasKeyOrder ==
  <<<<"keyPartners">>, <<"keyActivities">>, <<"valuePropositions">>,
    <<"customerRelationships">>, <<"customerSegments">>, <<"keyResources">>,
    <<"channels">>, <<"costStructure">>, <<"revenueModel">>>>

\* "key":value for the first n keys, separated by commas; valueText(k) is the
\* text of the value of key k and <<>> leaves the key out
RECURSIVE MembersText(_, _)
MembersText(n, valueText) ==
  IF n = 0 THEN <<>>
  ELSE LET k == CanvasKeyOrder[n]
           before == MembersText(n - 1, valueText)
       IN  IF valueText[k] = <<>> THEN before
           ELSE (IF before = <<>> THEN <<>> ELSE before \o <<",">>)
                \o <<Q>> \o k \o <<Q, ":">> \o valueText[k]

ObjectText(valueText) ==
  <<"{">> \o MembersText(Len(CanvasKeyOrder), valueText) \o <<"}">>

Padded == <<Q, " ", "a", ",", "}", " ", Q>>

FullText == ObjectText([k \in CANVAS_KEYS |-> Padded])
MissingKeyText ==
  ObjectText([k \in CANVAS_KEYS |->
                IF k = <<"channels">> THEN <<>> ELSE Padded])
NonStringText ==
  ObjectText([k \in CANVAS_KEYS |->
                IF k = <<"channels">> THEN <<"7">> ELSE Padded])
FencedText ==
  <<"BACKTICK", "BACKTICK", "BACKTICK", "json", "\r", "\n">>
  \o SubSeq(FullText, 1, Len(FullText) - 1) \o <<",", "\n", "}", "\n">>
  \o <<"BACKTICK", "BACKTICK", "BACKTICK">>
TruncatedText == SubSeq(FullText, 1, Len(FullText) - 3)
NotJsonText == <<"{", "a", "}">>

FullObject ==
  JObj([k \in CANVAS_KEYS \cup {<<"a">>} |-> JStr(<<" ", "a", " ">>)])
PartialObject ==
  JObj([k \in CANVAS_KEYS \ {<<"channels">>} |-> JStr(<<"a">>)])

NoPart ==
  [text |-> Undefined, functionCall |-> Undefined,
   functionResponse |-> Undefined]

TextResponse(s) ==
  [text |-> JStr(s), functionCalls |-> Undefined, candidates |-> <<>>]
CallResponse(args) ==
  [text |-> JStr(<<>>), functionCalls |-> JArr(<<[args |-> args]>>),
   candidates |-> <<[parts |-> <<[NoPart EXCEPT
                        !.functionCall = [t |-> "obj", args |-> args]]>>]>>]
PartResponse(part) ==
  [text |-> JStr(<<>>), functionCalls |-> Undefined,
   candidates |-> <<[parts |-> <<part>>]>>]
BlockedResponse ==
  [text |-> Throws, functionCalls |-> Throws, candidates |-> <<>>]

Responses ==
  {TextResponse(FullText), TextResponse(FencedText),
   TextResponse(TruncatedText), TextResponse(NotJsonText),
   TextResponse(MissingKeyText), TextResponse(NonStringText),
   TextResponse(<<" ">>), BlockedResponse,
   CallResponse(FullObject), CallResponse(PartialObject),
   PartResponse([NoPart EXCEPT !.functionResponse =
      [t |-> "obj", response |-> JObj((JsonKey :> JStr(FullText)))]])}

Usages == {Undefined, Num(1000), Num(2500), Num(3000)}

Errors == {[status |-> Undefined], [status |-> Num(400)],
           [status |-> Num(503)]}

Chars(n, c) == [i \in 1 .. n |-> c]

Body(topic, reportText) ==
  [json |-> TRUE, topic |-> topic, reportText |-> reportText]

Bodies ==
  {[json |-> FALSE, topic |-> Undefined, reportText |-> Undefined],
   Body(JStr(<<" ", "a", "b", " ">>), JStr(Chars(50, "x"))),
   Body(JStr(<<" ", "a", " ">>), JStr(Chars(50, "x"))),
   Body(JStr(<<"a", "b">>), JStr(Chars(49, "x") \o <<" ">>)),
   Body(Undefined, JStr(Chars(50, "x")))}

CanvasInitUsed == {0, 47000, 49000, 50000, 50100}

Init ==
  /\ file \in {Missing} \cup {InitDoc(u) : u \in CanvasInitUsed}
  /\ file0 = file
  /\ clock = 1
  /\ led = [p \in Callers |-> NoFrame]
  /\ ncalls = 0
  /\ log = <<>>
  /\ req = [p \in Callers |-> IdleReq]
  /\ input = <<>>
  /\ output = NoOutput

Next ==
  \/ \E hasKey \in BOOLEAN, body \in Bodies : Post(1, hasKey, body)
  \/ FsAccess(1)
  \/ FsWriteOpen(1)
  \/ FsWriteData(1)
  \/ FsReadFile(1)
  \/ Preflight(1)
  \/ \E aiResponse \in Responses, usage \in Usages :
       ModelReturns(1, aiResponse, usage)
  \/ \E error \in Errors : ModelThrows(1, error)
  \/ Respond(1)

\* One request handled from start to response, nothing else touching the
\* ledger meanwhile
Spec == Init /\ [][Next]_vars

\* ------------------------------------------- the sanitizer on its own
\* sanitizeJsonText applied to every short text over the characters it
\* looks at, bare and as the string value of an object, and applied again to
\* its own result.
MaxTextLen == 4

Strings(alphabet, n) == UNION {[1 .. k -> alphabet] : k \in 0 .. n}

SanitizerAlphabet ==
  {"BACKTICK", "NUL", "json", "{", "}", "]", ",", Q, " ", "\r"}

\* {"a":"<value>"}
AsValue(value) == <<"{", Q, "a", Q, ":", Q>> \o value \o <<Q, "}">>

SanitizerTexts ==
  LET short == Strings(SanitizerAlphabet, MaxTextLen)
  IN  short \cup {AsValue(v) : v \in short}

InitSanitizer ==
  /\ input \in SanitizerTexts
  /\ output = NoOutput
  /\ file = Missing
  /\ file0 = file
  /\ clock = 1
  /\ led = [p \in Callers |-> NoFrame]
  /\ ncalls = 0
  /\ log = <<>>
  /\ req = [p \in Callers |-> IdleReq]

Sanitize ==
  /\ output.fn = "none"
  /\ output' = [fn |-> "sanitizeJsonText", value |-> sanitizeJsonText(input)]
  /\ UNCHANGED <<input, file, file0, clock, led, ncalls, log, req>>

\* the result of the first call given to a second call
SanitizeAgain ==
  /\ output.fn = "sanitizeJsonText"
  /\ output' = [fn |-> "sanitizeJsonText twice", first |-> output.value,
                 value |-> sanitizeJsonText(output.value)]
  /\ UNCHANGED <<input, file, file0, clock, led, ncalls, log, req>>

NextSanitizer == Sanitize \/ SanitizeAgain

SpecSanitizer == InitSanitizer /\ [][NextSanitizer]_vars

\* ---------------------------------------------- the scans on their own
\* removeTrailingCommas, hasBalancedDelimiters and isLikelyTruncated applied
\* to every short text over the characters the scans tell apart, and to a
\* few longer ones.
MaxScanLen == 5

ScanAlphabet == {"{", "}", "]", ",", Q, "\\", " ", "a"}

ScanExamples ==
  {<<"{", Q, "a", Q, ":", Q, "b", Q, "}">>,
   <<"{", Q, "a", Q, ":", Q, "b", Q>>,
   <<"{", Q, "a", Q, ":", " ", Q, "b", "}", Q, "}">>,
   <<Q, "a", "\\", Q, "}", ",", " ", "b", Q>>,
   <<"{", Q, "\\", Q, ",", " ", "}", Q, ",", " ", "}">>}

ScanTexts == Strings(ScanAlphabet, MaxScanLen) \cup ScanExamples

InitScan ==
  /\ input \in ScanTexts
  /\ output = NoOutput
  /\ file = Missing
  /\ file0 = file
  /\ clock = 1
  /\ led = [p \in Callers |-> NoFrame]
  /\ ncalls = 0
  /\ log = <<>>
  /\ req = [p \in Callers |-> IdleReq]

RemoveCommas ==
  /\ output.fn = "none"
  /\ output' = [fn |-> "removeTrailingCommas",
                 value |-> removeTrailingCommas(input)]
  /\ UNCHANGED <<input, file, file0, clock, led, ncalls, log, req>>

Balanced ==
  /\ output.fn = "none"
  /\ output' = [fn |-> "hasBalancedDelimiters",
                 value |-> hasBalancedDelimiters(input)]
  /\ UNCHANGED <<input, file, file0, clock, led, ncalls, log, req>>

Truncated ==
  /\ output.fn = "none"
  /\ output' = [fn |-> "isLikelyTruncated",
                 value |-> isLikelyTruncated(input)]
  /\ UNCHANGED <<input, file, file0, clock, led, ncalls, log, req>>

NextScan == RemoveCommas \/ Balanced \/ Truncated

SpecScan == InitScan /\ [][NextScan]_vars

\* ------------------------------------------ the validator on its own
\* responseSchema.safeParse applied to the objects that have strings under
\* the nine keys except for at most MaxDefects of them, which are absent or
\* hold some other value; some objects carry a key the schema does not know.
MaxDefects == 2

Absent == [t |-> "absent"]

DefectValues ==
  {Absent, JStr(<<>>), JStr(<<"a", " ">>), Num(7), Null, JArr(<<>>),
   JObj(EmptyObject)}

SchemaObject(base, extra, defects) ==
  LET present == {k \in CANVAS_KEYS :
                    k \notin DOMAIN defects \/ defects[k] # Absent}
  IN  JObj([k \in present \cup extra |->
              IF k \in DOMAIN defects THEN defects[k] ELSE JStr(base)])

SchemaInputs ==
  {SchemaObject(base, extra, defects) :
     base \in {<<>>, <<" ", "a">>},
     extra \in {{}, {<<"a">>}},
     defects \in UNION {[D -> DefectValues] :
                          D \in {D \in SUBSET CANVAS_KEYS :
                                   Cardinality(D) <= MaxDefects}}}

InitSchema ==
  /\ input \in SchemaInputs
  /\ output = NoOutput
  /\ file = Missing
  /\ file0 = file
  /\ clock = 1
  /\ led = [p \in Callers |-> NoFrame]
  /\ ncalls = 0
  /\ log = <<>>
  /\ req = [p \in Callers |-> IdleReq]

Validate ==
  /\ output.fn = "none"
  /\ output' = [fn |-> "safeParse", value |-> safeParse(input)]
  /\ UNCHANGED <<input, file, file0, clock, led, ncalls, log, req>>

NextSchema == Validate

SpecSchema == InitSchema /\ [][NextSchema]_vars

\* One request where every model call settles, every file operation
\* completes and every continuation of the handler is run
ModelSettles ==
  \/ \E aiResponse \in Responses, usage \in Usages :
       ModelReturns(1, aiResponse, usage)
  \/ \E error \in Errors : ModelThrows(1, error)

SpecFair ==
  /\ Init
  /\ [][Next]_vars
  /\ WF_vars(FsAccess(1))
  /\ WF_vars(FsWriteOpen(1))
  /\ WF_vars(FsWriteData(1))
  /\ WF_vars(FsReadFile(1))
  /\ WF_vars(Preflight(1))
  /\ WF_vars(ModelSettles)
  /\ WF_vars(Respond(1))

\* Requests running concurrently against the same ledger: each request's
\* awaits (file operations, model calls) interleave with the other's
ConcurrentBodies == {Body(JStr(<<"a", "b">>), JStr(Chars(50, "x")))}
ConcurrentResponses == {TextResponse(FullText), TextResponse(TruncatedText)}
ConcurrentUsages == {Num(1000), Num(3000)}
ConcurrentErrors == {[status |-> Undefined]}
ConcurrentInitUsed == {47000, 49000}

InitConcurrent ==
  /\ file \in {InitDoc(u) : u \in ConcurrentInitUsed}
  /\ file0 = file
  /\ clock = 1
  /\ led = [p \in Callers |-> NoFrame]
  /\ ncalls = 0
  /\ log = <<>>
  /\ req = [p \in Callers |-> IdleReq]
  /\ input = <<>>
  /\ output = NoOutput

NextConcurrent ==
  \E p \in Callers :
    \/ \E body \in ConcurrentBodies : Post(p, TRUE, body)
    \/ FsAccess(p)
    \/ FsWriteOpen(p)
    \/ FsWriteData(p)
    \/ FsReadFile(p)
    \/ Preflight(p)
    \/ \E aiResponse \in ConcurrentResponses, usage \in ConcurrentUsages :
         ModelReturns(p, aiResponse, usage)
    \/ \E error \in ConcurrentErrors : ModelThrows(p, error)
    \/ Respond(p)

SpecConcurrent == InitConcurrent /\ [][NextConcurrent]_vars

\* ------------------------------------------------ generate: POST
\* The case-study route: one model call per entry of PROMPT_TEMPLATES, all
\* started before any is awaited, joined by Promise.all.  NumSections is the
\* number of entries of PROMPT_TEMPLATES.
NumSections == 2
MAX_OUTPUT_TOKENS == 5000
MsgGenerationFailed == "Generation failed. Please try again later."

Sections == 1 .. NumSections

\* requestSchema.safeParse(json): topic is a string of trimmed length >= 2
GenerateRequestValid(body) ==
  /\ body.json
  /\ body.topic.t = "str"
  /\ Len(Trim(body.topic.s)) >= 2

\* Math.min(MAX_OUTPUT_TOKENS, snapshotBefore.remaining)
AllowedMaxTokens(snapshotBefore) ==
  MathMin(Num(MAX_OUTPUT_TOKENS), snapshotBefore.remaining)

\* responses.reduce((acc, response) => acc + response.tokensUsed, 0)
RECURSIVE TotalTokensUsed(_)
TotalTokensUsed(responses) ==
  IF responses = <<>> THEN Num(0)
  ELSE JsAdd(TotalTokensUsed(SubSeq(responses, 1, Len(responses) - 1)),
             responses[Len(responses)].tokensUsed)

\* a failed request billed for the sections that did return
GenerateCommit_BillsFailure(r) ==
  EnterRecord(TotalTokensUsed(r.calls), r.topic)

\* the ledger call after Promise.all has settled: recordTokenUsage on
\* success, getTokenSnapshot in the catch block
GenerateCommit(r) ==
  IF r.path = "success"
  THEN EnterRecord(r.tokensUsedTotal, r.topic)
  ELSE EnterSnapshot(Num(0), <<>>)

\* POST is invoked: the checks before the snapshot, then getTokenSnapshot()
GeneratePost(p, hasKey, body) ==
  /\ req[p].pc = "idle"
  /\ led[p].pc = "none"
  /\ IF ~hasKey
     THEN /\ req' = [req EXCEPT ![p] = [@ EXCEPT !.pc = "done",
                 !.response = [status |-> 500,
                               body |-> [error |-> MsgMissingKey]]]]
          /\ led' = led
     ELSE IF ~body.json
     THEN /\ req' = [req EXCEPT ![p] = [@ EXCEPT !.pc = "done",
                 !.response = [status |-> 400,
                               body |-> [error |-> MsgInvalidBody]]]]
          /\ led' = led
     ELSE IF ~GenerateRequestValid(body)
     THEN /\ req' = [req EXCEPT ![p] = [@ EXCEPT !.pc = "done",
                 !.response = [status |-> 400,
                               body |-> [error |-> MsgFieldErrors]]]]
          /\ led' = led
     ELSE /\ req' = [req EXCEPT ![p] = [@ EXCEPT !.pc = "gpreflight",
                 !.entered = TRUE, !.topic = Trim(body.topic.s)]]
          /\ led' = [led EXCEPT ![p] = EnterSnapshot(Num(0), <<>>)]
  /\ UNCHANGED <<input, output, file, file0, clock, ncalls, log>>

\* getTokenSnapshot() has settled: the gate, then every section's
\* generateContent is started
GeneratePreflight(p) ==
  /\ req[p].pc = "gpreflight"
  /\ led[p].pc = "ret"
  /\ LET snapshotBefore == led[p].result
     IN  IF BudgetExhausted(snapshotBefore)
         THEN req' = [req EXCEPT ![p] = [@ EXCEPT !.pc = "done",
                     !.snapshotBefore = snapshotBefore,
                     !.response =
                        [status |-> 429,
                         body |-> [error |-> MsgExhausted,
                                   allowance |-> snapshotBefore.allowance,
                                   used |-> snapshotBefore.used,
                                   remaining |-> snapshotBefore.remaining]]]]
         ELSE req' = [req EXCEPT ![p] = [@ EXCEPT !.pc = "gmodel",
                     !.snapshotBefore = snapshotBefore,
                     !.calls = [i \in Sections |->
                        [label |-> "section",
                         maxOutputTokens |-> AllowedMaxTokens(snapshotBefore),
                         availableTokens |-> snapshotBefore.remaining,
                         settled |-> "pending",
                         tokensUsed |-> Num(0),
                         aiResponse |-> Null]]]]
  /\ led' = [led EXCEPT ![p] = NoFrame]
  /\ UNCHANGED <<input, output, file, file0, clock, ncalls, log>>

\* r after one of its section promises has settled: Promise.all rejects on
\* the first rejection and resolves when every section has returned; a
\* section that settles after Promise.all has rejected changes nothing else
Joined(p, r) ==
  IF req[p].pc # "gmodel"
  THEN /\ req' = [req EXCEPT ![p] = r]
       /\ led' = led
  ELSE IF \E i \in DOMAIN r.calls : r.calls[i].settled = "threw"
  THEN LET c == [r EXCEPT !.pc = "commit", !.path = "catch"]
       IN  /\ req' = [req EXCEPT ![p] = c]
           /\ led' = [led EXCEPT ![p] = GenerateCommit(c)]
  ELSE IF \A i \in DOMAIN r.calls : r.calls[i].settled = "returned"
  THEN LET c == [r EXCEPT !.pc = "commit", !.path = "success",
                          !.tokensUsedTotal = TotalTokensUsed(r.calls)]
       IN  /\ req' = [req EXCEPT ![p] = c]
           /\ led' = [led EXCEPT ![p] = GenerateCommit(c)]
  ELSE /\ req' = [req EXCEPT ![p] = r]
       /\ led' = led

\* a section's generateContent resolves: text().trim(), then the token count;
\* a text() that throws rejects the section's promise
SectionReturns(p, i, aiResponse, usage) ==
  /\ req[p].pc \in {"gmodel", "commit", "done"}
  /\ i \in DOMAIN req[p].calls
  /\ req[p].calls[i].label = "section"
  /\ req[p].calls[i].settled = "pending"
  /\ Joined(p,
       IF aiResponse.text = Throws
       THEN [req[p] EXCEPT
               !.calls[i] = [@ EXCEPT !.settled = "threw",
                                      !.aiResponse = aiResponse],
               !.error = IF req[p].pc = "gmodel" THEN [status |-> Undefined]
                         ELSE @]
       ELSE [req[p] EXCEPT
               !.calls[i] = [@ EXCEPT !.settled = "returned",
                                      !.tokensUsed = TokensUsedOf(usage),
                                      !.aiResponse = aiResponse]])
  /\ UNCHANGED <<input, output, file, file0, clock, ncalls, log>>

\* a section's generateContent rejects
SectionThrows(p, i, error) ==
  /\ req[p].pc \in {"gmodel", "commit", "done"}
  /\ i \in DOMAIN req[p].calls
  /\ req[p].calls[i].label = "section"
  /\ req[p].calls[i].settled = "pending"
  /\ Joined(p, [req[p] EXCEPT
                  !.calls[i] = [@ EXCEPT !.settled = "threw"],
                  !.error = IF req[p].pc = "gmodel" THEN error ELSE @])
  /\ UNCHANGED <<input, output, file, file0, clock, ncalls, log>>

\* the response of the success return and of the catch block
GenerateResponseOf(r, snapshot) ==
  IF r.path = "success"
  THEN [status |-> 200,
        body |-> [topic |-> r.topic, tokensUsed |-> r.tokensUsedTotal,
                  allowance |-> snapshot.allowance,
                  tokensRemaining |-> snapshot.remaining]]
  ELSE [status |-> CatchStatus(r.error),
        body |-> [error |-> IF CatchStatus(r.error) = 400 THEN MsgRejected
                            ELSE MsgGenerationFailed,
                  allowance |-> snapshot.allowance, used |-> snapshot.used,
                  remaining |-> snapshot.remaining]]

\* the last ledger call has settled: the response is returned
GenerateRespond(p) ==
  /\ req[p].pc = "commit"
  /\ req[p].calls # <<>>
  /\ req[p].calls[1].label = "section"
  /\ led[p].pc = "ret"
  /\ req' = [req EXCEPT ![p] = [@ EXCEPT !.pc = "done",
               !.response = GenerateResponseOf(req[p], led[p].result)]]
  /\ log' = Append(log, [p |-> p, fn |-> led[p].fn, amount |-> led[p].amount,
                          topic |-> led[p].topic, before |-> led[p].before,
                          after |-> file, result |-> led[p].result])
  /\ led' = [led EXCEPT ![p] = NoFrame]
  /\ UNCHANGED <<input, output, file, file0, clock, ncalls>>

GenerateResponses == {[text |-> JStr(<<" ", "a", " ">>)], [text |-> Throws]}
GenerateBodies ==
  {[json |-> FALSE, topic |-> Undefined],
   [json |-> TRUE, topic |-> JStr(<<" ", "a", "b", " ">>)],
   [json |-> TRUE, topic |-> JStr(<<" ", "a", " ">>)],
   [json |-> TRUE, topic |-> Undefined]}
GenerateInitUsed == {0, 47000, 50000}

InitGenerate ==
  /\ file \in {Missing} \cup {InitDoc(u) : u \in GenerateInitUsed}
  /\ file0 = file
  /\ clock = 1
  /\ led = [p \in Callers |-> NoFrame]
  /\ ncalls = 0
  /\ log = <<>>
  /\ req = [p \in Callers |-> IdleReq]
  /\ input = <<>>
  /\ output = NoOutput

NextGenerate ==
  \/ \E hasKey \in BOOLEAN, body \in GenerateBodies :
       GeneratePost(1, hasKey, body)
  \/ FsAccess(1)
  \/ FsWriteOpen(1)
  \/ FsWriteData(1)
  \/ FsReadFile(1)
  \/ GeneratePreflight(1)
  \/ \E i \in Sections, aiResponse \in GenerateResponses, usage \in Usages :
       SectionReturns(1, i, aiResponse, usage)
  \/ \E i \in Sections, error \in Errors : SectionThrows(1, i, error)
  \/ GenerateRespond(1)

\* One case-study request handled from start to response, nothing else
\* touching the ledger meanwhile
SpecGenerate == InitGenerate /\ [][NextGenerate]_vars

\* ------------------------------------------ the extractor on its own
\* extractModelPayload applied to responses whose text() throws or returns a
\* string, whose functionCalls() is absent, throws or returns up to
\* MaxEntries calls, and whose candidate holds up to MaxEntries parts.
MaxEntries == 2

ArgValues ==
  {Undefined, JStr(<<"a", " ">>), JObj(EmptyObject),
   JObj((JsonKey :> JObj(EmptyObject))), JObj((JsonKey :> JStr(<<" ", "b">>))),
   JObj((<<"a">> :> Num(7)))}

PartValues ==
  {[NoPart EXCEPT !.text = JStr(<<" ">>)],
   [NoPart EXCEPT !.text = JStr(<<"c", " ">>)],
   [NoPart EXCEPT !.functionCall =
      [t |-> "obj", args |-> JObj((<<"a">> :> Num(7)))]],
   [NoPart EXCEPT !.functionResponse =
      [t |-> "obj", response |-> JObj(EmptyObject)]],
   [NoPart EXCEPT !.functionResponse =
      [t |-> "obj", response |-> JObj((JsonKey :> JStr(<<"d">>)))]]}

ExtractorInputs ==
  {[text |-> text, functionCalls |-> calls,
    candidates |-> <<[parts |-> parts]>>] :
     text \in {Throws, JStr(<<" ">>), JStr(<<" ", "a", " ">>)},
     calls \in {Undefined, Throws}
       \cup {JArr(a) : a \in Strings({[args |-> v] : v \in ArgValues},
                                     MaxEntries)},
     parts \in Strings(PartValues, MaxEntries)}

InitExtractor ==
  /\ input \in ExtractorInputs
  /\ output = NoOutput
  /\ file = Missing
  /\ file0 = file
  /\ clock = 1
  /\ led = [p \in Callers |-> NoFrame]
  /\ ncalls = 0
  /\ log = <<>>
  /\ req = [p \in Callers |-> IdleReq]

Extract ==
  /\ output.fn = "none"
  /\ output' = [fn |-> "extractModelPayload",
                 value |-> extractModelPayload(input)]
  /\ UNCHANGED <<input, file, file0, clock, led, ncalls, log, req>>

NextExtractor == Extract

SpecExtractor == InitExtractor /\ [][NextExtractor]_vars

\* ---------------------------------------------------- request properties
R == req[1]

\* the request passed input validation and has returned its response
Done == R.pc = "done" /\ R.entered

Returned(c) == c.settled = "returned"

\* what the model calls that completed in the request reported, in total
RECURSIVE ReportedTotal(_)
ReportedTotal(calls) ==
  IF calls = <<>> THEN Num(0)
  ELSE IF Returned(Head(calls))
       THEN JsAdd(Head(calls).tokensUsed, ReportedTotal(Tail(calls)))
       ELSE ReportedTotal(Tail(calls))

\* what the recordTokenUsage calls that changed the ledger were given
RECURSIVE CommittedTotal(_)
CommittedTotal(n) ==
  IF n = 0 THEN Num(0)
  ELSE IF log[n].fn = "recordTokenUsage" /\ PositiveFinite(log[n].amount)
       THEN JsAdd(log[n].amount, CommittedTotal(n - 1))
       ELSE CommittedTotal(n - 1)

IsTrimmed(str) ==
  str = <<>> \/ (str[1] \notin Whitespace /\ str[Len(str)] \notin Whitespace)

\* how the pipeline reads a response: its payload, and for a string payload
\* the sanitized text
PayloadOf(aiResponse) == extractModelPayload(aiResponse).payload
IsStringPayload(aiResponse) ==
  ~extractModelPayload(aiResponse).threw /\ PayloadOf(aiResponse).t = "str"
FlaggedTruncated(aiResponse) ==
  /\ IsStringPayload(aiResponse)
  /\ isLikelyTruncated(sanitizeJsonText(PayloadOf(aiResponse).s))
DecodedOf(aiResponse) ==
  IF PayloadOf(aiResponse).t = "str"
  THEN JsonParse(sanitizeJsonText(PayloadOf(aiResponse).s))
  ELSE ParseOk(PayloadOf(aiResponse), 0)
HasNineStrings(v) ==
  /\ v.t = "obj"
  /\ \A k \in CANVAS_KEYS : k \in DOMAIN v.o /\ v.o[k].t = "str"
SchemaConforming(aiResponse) ==
  /\ ~extractModelPayload(aiResponse).threw
  /\ PayloadOf(aiResponse) # Null
  /\ ~FlaggedTruncated(aiResponse)
  /\ DecodedOf(aiResponse).ok
  /\ HasNineStrings(DecodedOf(aiResponse).v)

\* C2: in every failure outcome of the pipeline, when the model calls that
\* completed reported T > 0 tokens in total, recordTokenUsage(T, ...) has been
\* performed by the time the error response is returned, and the ledger's used
\* has grown by exactly T.
C2_FailureCommitsSpend ==
  LET T == ReportedTotal(R.calls)
  IN  (Done /\ R.response.status # 200 /\ JsGt(T, Num(0)))
      => /\ Len(log) = 1
         /\ log[1].fn = "recordTokenUsage"
         /\ log[1].amount = T
         /\ ParseState(file).used = JsAdd(ParseState(file0).used, T)
         /\ R.response.body.used = ParseState(file).used

\* C2 witness: the compact call threw after the primary call had reported
\* tokens, and those tokens are in the ledger when the 502 is returned
C2_Witness ==
  /\ Done
  /\ R.path = "catch"
  /\ Len(R.calls) = 2
  /\ R.response.status = 502
  /\ JsGt(ReportedTotal(R.calls), Num(0))
  /\ ParseState(file).used
       = JsAdd(ParseState(file0).used, ReportedTotal(R.calls))

\* C3: when the snapshot taken at the start of a valid request has remaining
\* 0, the request ends with status 429 and the budget-exhausted error, the
\* model is never invoked and the ledger is left as it was.
C3_PreflightGate ==
  (Done /\ R.snapshotBefore.remaining = Num(0))
  => /\ R.response.status = 429
     /\ R.response.body.error = MsgExhausted
     /\ R.calls = <<>>
     /\ file = file0
     /\ log = <<>>

\* C3 witness: a request answered 429 at the gate, on a ledger whose used
\* has passed the allowance
C3_Witness ==
  /\ Done
  /\ R.snapshotBefore.remaining = Num(0)
  /\ JsGt(R.snapshotBefore.used, Num(TOKEN_ALLOWANCE))
  /\ R.response.status = 429

\* C4: a success response is returned only when the payload of some attempt
\* of the request passed schema validation, and its canvas has exactly the
\* nine required keys, each a trimmed string.
C4_SuccessIsValidated ==
  (R.pc = "done" /\ R.response.status = 200)
  => /\ \E i \in DOMAIN R.calls :
          Returned(R.calls[i]) /\ SchemaConforming(R.calls[i].aiResponse)
     /\ DOMAIN R.response.body.canvas = CANVAS_KEYS
     /\ \A k \in CANVAS_KEYS : IsTrimmed(R.response.body.canvas[k])

\* C4 witness: a success whose payload held padded strings and an extra key
C4_Witness ==
  /\ R.pc = "done"
  /\ R.response.status = 200
  /\ R.calls[Len(R.calls)].aiResponse = CallResponse(FullObject)
  /\ \A k \in CANVAS_KEYS : R.response.body.canvas[k] = <<"a">>

\* C5: when the primary attempt returns a string payload that the truncation
\* detector flags and the compact attempt returns a schema-conforming object,
\* the request succeeds with the compact attempt's result and tokensUsed is
\* the sum of what the two calls reported.
C5_Escalation ==
  ( /\ Done
    /\ Len(R.calls) = 2
    /\ Returned(R.calls[1])
    /\ Returned(R.calls[2])
    /\ FlaggedTruncated(R.calls[1].aiResponse)
    /\ SchemaConforming(R.calls[2].aiResponse) )
  => /\ R.response.status = 200
     /\ R.response.body.canvas =
          [k \in CANVAS_KEYS |->
             Trim(DecodedOf(R.calls[2].aiResponse).v.o[k].s)]
     /\ R.response.body.tokensUsed =
          JsAdd(R.calls[1].tokensUsed, R.calls[2].tokensUsed)

\* C5 witness: truncated primary payload, valid compact payload, both billed
C5_Witness ==
  /\ Done
  /\ Len(R.calls) = 2
  /\ R.calls[1].aiResponse = TextResponse(TruncatedText)
  /\ R.calls[1].tokensUsed = Num(1000)
  /\ R.calls[2].aiResponse = TextResponse(FencedText)
  /\ R.calls[2].tokensUsed = Num(2500)
  /\ R.response.status = 200
  /\ R.response.body.tokensUsed = Num(3500)

SpendBound ==
  MathMin(Num(PRIMARY_MAX_OUTPUT_TOKENS + COMPACT_MAX_OUTPUT_TOKENS),
          R.snapshotBefore.remaining)

WithinCeilings ==
  \A i \in DOMAIN R.calls :
    Returned(R.calls[i])
    => JsLe(R.calls[i].tokensUsed, R.calls[i].maxOutputTokens)

\* C6 as claimed: whatever token counts the model calls report, the request
\* commits at most min(PRIMARY + COMPACT max output tokens, remaining at its
\* start) to the ledger.
C6_SpendBound ==
  Done => JsLe(CommittedTotal(Len(log)), SpendBound)

\* C6 amended: the request commits the sum of the reported token counts, and
\* that is at most min(PRIMARY + COMPACT max output tokens, remaining at its
\* start) when no call reports more than the ceiling it was issued with.
C6_SpendBoundWithinCeilings ==
  Done => /\ CommittedTotal(Len(log)) = ReportedTotal(R.calls)
          /\ WithinCeilings => JsLe(CommittedTotal(Len(log)), SpendBound)

\* C6 witness: two calls, each reporting exactly its ceiling, on a ledger with
\* 3000 tokens left: all 3000 are committed
C6_Witness ==
  /\ Done
  /\ R.snapshotBefore.remaining = Num(3000)
  /\ Len(R.calls) = 2
  /\ R.calls[1].tokensUsed = Num(2500)
  /\ R.calls[2].maxOutputTokens = Num(500)
  /\ WithinCeilings
  /\ ~JsLe(CommittedTotal(Len(log)), Num(0))

\* C7: within one request the model is invoked at most twice, the primary
\* configuration at most once and first, the compact configuration at most
\* once and only after the primary call has returned.
C7_OneDirection ==
  /\ Len(R.calls) <= 2
  /\ Len(R.calls) >= 1 => R.calls[1].label = "primary"
  /\ Len(R.calls) = 2 => R.calls[2].label = "compact" /\ Returned(R.calls[1])

\* C7 witness: the compact call has been issued after a primary call that
\* returned an unusable payload
C7_Witness ==
  /\ R.pc = "model"
  /\ Len(R.calls) = 2
  /\ R.calls[2].label = "compact"
  /\ R.calls[2].settled = "pending"
  /\ Returned(R.calls[1])

\* C8 as claimed: after input validation every failure response has status
\* 429 or 502, and 400 is only ever the answer to a bad request body.
C8_FailureStatus ==
  (Done /\ R.response.status # 200) => R.response.status \in {429, 502}

\* C8 amended: after input validation a failure response has status 429 or
\* 502, except that a model call rejected with a numeric status is answered
\* with that status (400 included).
C8_FailureStatusOrUpstream ==
  (Done /\ R.response.status # 200)
  => IF R.path = "catch" /\ R.error.status.t = "num"
     THEN Num(R.response.status) = R.error.status
     ELSE R.response.status \in {429, 502}

\* C8 witness: a model call rejected with status 400 is answered 400
C8_Witness ==
  /\ Done
  /\ R.path = "catch"
  /\ R.error.status = Num(400)
  /\ R.response.status = 400
  /\ R.response.body.error = MsgRejected

\* ------------------------------------------------------ ledger properties
RecordCalls == {i \in DOMAIN log : log[i].fn = "recordTokenUsage"}

RECURSIVE SumAmounts(_)
SumAmounts(n) ==
  IF n = 0 THEN Num(0)
  ELSE IF log[n].fn = "recordTokenUsage"
       THEN JsAdd(SumAmounts(n - 1), log[n].amount)
       ELSE SumAmounts(n - 1)

AllReturned == \A p \in Callers : led[p].pc = "none"

\* C1: whatever the interleaving of two or more recordTokenUsage calls with
\* positive amounts, once all of them have returned the persisted used is the
\* initial used plus the sum of the amounts (no increment is lost).
C1_NoLostIncrement ==
  ( /\ AllReturned
    /\ Cardinality(RecordCalls) >= 2
    /\ \A i \in RecordCalls : PositiveFinite(log[i].amount) )
  => ParseState(file).used = JsAdd(ParseState(file0).used, SumAmounts(Len(log)))

\* C9: every snapshot handed back by getTokenSnapshot or recordTokenUsage has
\* remaining = max(0, allowance - used): never negative, and 0 whenever
\* used >= allowance, also after the recorded total has passed the allowance.
C9_SnapshotRemaining ==
  \A i \in DOMAIN log :
    LET s == log[i].result
        u == ToNumber(s.used)
    IN  /\ s.allowance = Num(TOKEN_ALLOWANCE)
        /\ s.remaining.t = "num"
        /\ s.remaining.h >= 0
        /\ u.t = "num" /\ u.h < 2 * TOKEN_ALLOWANCE
             => s.remaining.h = 2 * TOKEN_ALLOWANCE - u.h
        /\ u.t = "inf" \/ (u.t = "num" /\ u.h >= 2 * TOKEN_ALLOWANCE)
             => s.remaining = Num(0)

\* C9 witness: a recordTokenUsage call returned after the total passed the
\* allowance, and its snapshot says remaining 0
C9_Witness ==
  \E i \in DOMAIN log :
    /\ log[i].fn = "recordTokenUsage"
    /\ PositiveFinite(log[i].amount)
    /\ JsGt(log[i].result.used, Num(TOKEN_ALLOWANCE))
    /\ log[i].result.remaining = Num(0)

\* C10: recordTokenUsage with an amount that is not a positive finite number
\* (zero, negative, NaN, infinite) is a no-op: the persisted used and history
\* are as before the call, and the current snapshot is returned.
C10_InvalidAmountNoOp ==
  \A i \in DOMAIN log :
    (log[i].fn = "recordTokenUsage" /\ ~PositiveFinite(log[i].amount))
    => /\ ParseState(log[i].after) = ParseState(log[i].before)
       /\ log[i].result = SnapshotOf(ParseState(log[i].after).used)

\* C11: after n sequential recordTokenUsage calls with positive amounts on
\* an empty ledger, history has length min(n, 20) and holds the most recent
\* min(n, 20) records, newest first (the k-th call recorded the amount k).
C11_HistoryRetention ==
  (led[1].pc = "none" /\ Len(log) >= 1)
  => LET n == Len(log)
         m == IF n < HISTORY_LIMIT THEN n ELSE HISTORY_LIMIT
     IN  /\ file.k = "doc"
         /\ Len(file.history) = m
         /\ \A i \in 1 .. m : file.history[i].tokens = Num(n - i + 1)
         /\ \A i \in 1 .. m - 1 :
              file.history[i].timestamp > file.history[i + 1].timestamp

\* C11 witness: 25 calls have returned, 20 records are kept and the oldest
\* kept record is the one of the 6th call
C11_Witness ==
  /\ led[1].pc = "none"
  /\ Len(log) = 25
  /\ file.k = "doc"
  /\ Len(file.history) = 20
  /\ file.history[1].tokens = Num(25)
  /\ file.history[20].tokens = Num(6)

\* C12: the persisted used never goes down. A recordTokenUsage call that
\* starts its fs.writeFile over a ledger document replaces it with a document
\* whose used is at least the used it replaces, also when other callers are
\* reading and writing the file.
C12_UsedMonotonic ==
  [][ \A p \in Callers :
        ( /\ led[p].pc = "wopen"
          /\ led'[p].pc = "wdata"
          /\ file.k = "doc"
          /\ file.used.t = "num"
          /\ led[p].pending.used.t = "num" )
        => led[p].pending.used.h >= file.used.h ]_vars

LacksNumericUsed(f) ==
  \/ f.k \in {"missing", "text", "null"}
  \/ f.k \in {"doc", "obj"} /\ f.used.t # "num"

\* C13: getTokenSnapshot never fails: on a ledger file that is missing, not
\* JSON, or JSON lacking a numeric used, it returns used 0 with the fixed
\* allowance and remaining = allowance.
C13_SnapshotFailOpen ==
  \A i \in DOMAIN log :
    (log[i].fn = "getTokenSnapshot" /\ LacksNumericUsed(log[i].before))
    => log[i].result = SnapshotOf(Num(0))

HasFence(s) == \E i \in DOMAIN s : IsFence(s, i)

\* C14: whatever the input, the output of sanitizeJsonText holds no fence
\* marker: no three consecutive backticks.
C14_NoFenceInOutput ==
  output.fn = "sanitizeJsonText" => ~HasFence(output.value)

\* The lexer of the two scans told as a state machine: the state after the
\* first n characters of s.  A backslash escapes the next character, in a
\* string literal and outside one; an unescaped quote opens or closes a
\* string literal.
RECURSIVE Lex(_, _)
Lex(s, n) ==
  IF n = 0 THEN "Normal"
  ELSE LET prev == Lex(s, n - 1)
       IN  CASE prev = "EscapedNormal" -> "Normal"
             [] prev = "EscapedInString" -> "InString"
             [] s[n] = "\\" ->
                  IF prev = "Normal" THEN "EscapedNormal"
                  ELSE "EscapedInString"
             [] s[n] = Q -> IF prev = "Normal" THEN "InString" ELSE "Normal"
             [] OTHER -> prev

\* character i of s is read outside a string literal and unescaped
Outside(s, i) == Lex(s, i - 1) = "Normal"
\* character i of s lies inside a string literal
InsideString(s, i) == Lex(s, i - 1) \in {"InString", "EscapedInString"}

\* a comma outside a string literal whose next non-whitespace character
\* closes an object or an array
HasTrailingComma(s) ==
  \E i \in DOMAIN s :
    /\ s[i] = ","
    /\ Outside(s, i)
    /\ LET j == SkipWhitespace(s, i + 1)
       IN  j <= Len(s) /\ s[j] \in {"}", "]"}

\* C15: whatever the input, several consecutive commas before a closing
\* bracket included, the output of sanitizeJsonText holds no comma whose next
\* non-whitespace character is "}" or "]".
C15_NoTrailingCommaInOutput ==
  output.fn = "sanitizeJsonText" => ~HasTrailingComma(output.value)

\* the characters of the first n that lie inside a string literal
RECURSIVE StringContent(_, _)
StringContent(s, n) ==
  IF n = 0 THEN <<>>
  ELSE IF InsideString(s, n) THEN Append(StringContent(s, n - 1), s[n])
  ELSE StringContent(s, n - 1)

\* s with the braces inside its string literals replaced by a letter
MaskedBraces(s) ==
  [i \in DOMAIN s |->
     IF InsideString(s, i) /\ s[i] \in {"{", "}"} THEN "a" ELSE s[i]]

\* C16: the two scans are string-literal-aware.  removeTrailingCommas leaves
\* every character inside a double-quoted string in place, commas included,
\* and hasBalancedDelimiters answers as it does when the braces inside the
\* double-quoted strings are not there; a quote after an unconsumed backslash
\* neither opens nor closes a string.
C16_StringLiteralAware ==
  /\ output.fn = "removeTrailingCommas"
       => StringContent(output.value, Len(output.value))
            = StringContent(input, Len(input))
  /\ output.fn = "hasBalancedDelimiters"
       => output.value = hasBalancedDelimiters(MaskedBraces(input))

\* C16 witness: removeTrailingCommas has run over a string literal that holds
\* an escaped quote and then a comma whose next non-whitespace character is
\* "}", and has returned the text with that comma in it
C16_Witness ==
  /\ output.fn = "removeTrailingCommas"
  /\ \E i \in DOMAIN input :
       /\ input[i] = ","
       /\ InsideString(input, i)
       /\ LET j == SkipWhitespace(input, i + 1)
          IN  j <= Len(input) /\ input[j] = "}"
       /\ \E e \in 1 .. i - 2 :
            input[e] = "\\" /\ input[e + 1] = Q /\ InsideString(input, e)
       /\ \E o \in DOMAIN output.value :
            output.value[o] = "," /\ InsideString(output.value, o)

\* brace depth after the first n characters, counting the braces read
\* outside string literals
Depth(s, n) ==
  Cardinality({i \in 1 .. n : s[i] = "{" /\ Outside(s, i)})
    - Cardinality({i \in 1 .. n : s[i] = "}" /\ Outside(s, i)})

\* C17: isLikelyTruncated(s) is true exactly when the trimmed s is empty, or
\* does not start with "{", or does not end with "}", or its brace depth
\* outside strings goes negative or ends non-zero, or the text ends inside a
\* string literal.
C17_TruncatedExactly ==
  output.fn = "isLikelyTruncated"
  => LET t == Trim(input)
     IN  output.value
           = ( \/ t = <<>>
               \/ t[1] # "{"
               \/ t[Len(t)] # "}"
               \/ \E n \in 1 .. Len(t) : Depth(t, n) < 0
               \/ Depth(t, Len(t)) # 0
               \/ Lex(t, Len(t)) \in {"InString", "EscapedInString"} )

\* C17 witness: a complete object whose string value holds a brace has been
\* judged not truncated
C17_Witness ==
  /\ output.fn = "isLikelyTruncated"
  /\ output.value = FALSE
  /\ \E i \in DOMAIN input : input[i] = "}" /\ InsideString(input, i)
  /\ Len(input) >= 9

\* JSON.parse accepts the text and returns an object
IsJsonObjectText(y) ==
  LET r == JsonParse(y)
  IN  r.ok /\ r.v.t = "obj"

\* C18: the sanitizer is idempotent on its valid results: when an output y of
\* sanitizeJsonText is the text of a JSON object, sanitizeJsonText(y) = y.
C18_Idempotent ==
  (output.fn = "sanitizeJsonText twice" /\ IsJsonObjectText(output.first))
  => output.value = output.first

\* C19: validation of a parsed object fails when one of the nine required
\* keys is absent, fails when a required key holds a value that is not a
\* string, and passes when all nine hold strings, the empty string included.
C19_SchemaVerdict ==
  output.fn = "safeParse"
  => LET absent == {k \in CANVAS_KEYS : k \notin DOMAIN input.o}
         wrong == {k \in CANVAS_KEYS \ absent : input.o[k].t # "str"}
     IN  /\ absent # {} => ~output.value.success
         /\ wrong # {} => ~output.value.success
         /\ (absent = {} /\ wrong = {}) => output.value.success

\* C19 witness: an object with all nine keys, one of them holding the empty
\* string, has passed
C19_Witness ==
  /\ output.fn = "safeParse"
  /\ output.value.success
  /\ \E k \in CANVAS_KEYS : input.o[k] = JStr(<<>>)
  /\ \E k \in CANVAS_KEYS : input.o[k] # JStr(<<>>)

\* which of the four recoverable conditions the pipeline finds in a response
ConditionOf(aiResponse) ==
  IF PayloadOf(aiResponse) = Null THEN "empty"
  ELSE IF FlaggedTruncated(aiResponse) THEN "truncated"
  ELSE IF ~DecodedOf(aiResponse).ok THEN "parse"
  ELSE IF ~HasNineStrings(DecodedOf(aiResponse).v) THEN "schema"
  ELSE "none"

ConditionMessage(condition, compact) ==
  CASE condition = "empty" -> MsgEmpty(compact)
    [] condition = "truncated" -> MsgTruncated(compact)
    [] condition = "parse" -> MsgParse(compact)
    [] condition = "schema" -> MsgSchema(compact)
    [] OTHER -> MsgDefault

\* the request left the attempt loop without a success and answered 502
Surfaced502 == Done /\ R.path = "exit" /\ R.response.status = 502

\* C20: an empty response, a truncated response, a parse failure or a schema
\* violation is answered with 502 only when it is the compact attempt's: in
\* every request that ends with 502 for one of the four, the compact attempt
\* was called, and the error returned is the one recorded for the compact
\* attempt's response.
C20_OnlyFinalAttemptSurfaces ==
  Surfaced502
  => /\ R.calls # <<>>
     /\ LET last == R.calls[Len(R.calls)]
        IN  /\ last.label = attemptConfigs[Len(attemptConfigs)].label
            /\ attemptConfigs[Len(attemptConfigs)].compact
            /\ Returned(last)
            /\ ConditionOf(last.aiResponse) # "none"
            /\ R.response.body.error
                 = ConditionMessage(ConditionOf(last.aiResponse), TRUE)

\* C20 witness: the primary attempt met one condition, the compact attempt
\* another, and the 502 carries the compact attempt's
C20_Witness ==
  /\ Surfaced502
  /\ Len(R.calls) = 2
  /\ ConditionOf(R.calls[1].aiResponse) # "none"
  /\ ConditionOf(R.calls[2].aiResponse) # "none"
  /\ ConditionOf(R.calls[1].aiResponse) # ConditionOf(R.calls[2].aiResponse)
  /\ R.response.body.error
       = ConditionMessage(ConditionOf(R.calls[2].aiResponse), TRUE)

\* the messages of the failures the attempt loop recovers from or reports
RecoverableMessages ==
  {MsgEmpty(c) : c \in BOOLEAN} \cup {MsgTruncated(c) : c \in BOOLEAN}
    \cup {MsgParse(c) : c \in BOOLEAN} \cup {MsgSchema(c) : c \in BOOLEAN}
    \cup {MsgDefault, MsgExhausted, MsgExhaustedDuring}

\* C21: a model call that throws is never retried: it is the request's last
\* model call, and the request answers with the catch block's error, which
\* is none of the recoverable-failure messages.
C21_RejectionNotRetried ==
  \A i \in DOMAIN R.calls :
    R.calls[i].settled = "threw"
    => /\ i = Len(R.calls)
       /\ R.pc \in {"commit", "done"}
       /\ R.path = "catch"
       /\ R.pc = "done"
            => /\ R.response.status = CatchStatus(R.error)
               /\ R.response.body.error \in {MsgRejected, MsgFailed}
               /\ R.response.body.error \notin RecoverableMessages

\* C21 witness: the primary call threw with budget left for a compact call,
\* and the request has answered without calling the model again
C21_Witness ==
  /\ Done
  /\ Len(R.calls) = 1
  /\ R.calls[1].settled = "threw"
  /\ JsGt(R.snapshotBefore.remaining, Num(PRIMARY_MAX_OUTPUT_TOKENS))
  /\ R.response.body.error = MsgFailed

\* what the entries of a response unwrap to, in the order they are looked at
CallYields(aiResponse) ==
  IF aiResponse.functionCalls.t = "arr"
  THEN [i \in DOMAIN aiResponse.functionCalls.a |->
          extractFromArgs(aiResponse.functionCalls.a[i].args)]
  ELSE <<>>
PartYields(aiResponse) ==
  LET parts == aiResponse.candidates[1].parts
  IN  [i \in DOMAIN parts |-> PartPayload(parts[i])]

\* the yield at the least index that is usable, null when there is none
FirstOf(yields, usable(_)) ==
  IF \E i \in DOMAIN yields : usable(yields[i])
  THEN yields[CHOOSE i \in DOMAIN yields :
                /\ usable(yields[i])
                /\ \A j \in 1 .. i - 1 : ~usable(yields[j])]
  ELSE Null

\* the payload the priority order selects, given what counts as usable
Selected(aiResponse, usable(_)) ==
  IF aiResponse.text.t = "str" /\ Trim(aiResponse.text.s) # <<>>
  THEN JStr(Trim(aiResponse.text.s))
  ELSE IF FirstOf(CallYields(aiResponse), usable) # Null
  THEN FirstOf(CallYields(aiResponse), usable)
  ELSE FirstOf(PartYields(aiResponse), usable)

\* a non-empty string or a non-empty object
NonEmptyValue(v) ==
  \/ v.t = "str" /\ v.s # <<>>
  \/ v.t = "obj" /\ DOMAIN v.o # {}
  \/ v.t = "arr" /\ v.a # <<>>

\* whatever the unwrapping returns other than null: a non-empty trimmed
\* string, the object under "json" whatever its size, or an entry with a key
NotNull(v) == v # Null

\* C22 as claimed: extractModelPayload returns the trimmed text if that is
\* non-empty, else the first function call's unwrapped arguments that are a
\* non-empty string or a non-empty object, else the first such part, and null
\* exactly when there is none; a throw of text() does not make it throw.
C22_PriorityOrder ==
  (output.fn = "extractModelPayload" /\ input.functionCalls # Throws)
  => /\ ~output.value.threw
     /\ output.value.payload = Selected(input, NonEmptyValue)

\* C22 amended: the same order, where the first entry that unwraps to
\* anything but null is taken, the empty object under "json" included;
\* a throw of text() does not make it throw, a throw of functionCalls() that
\* is reached does.
C22_PriorityOrderAsUnwrapped ==
  output.fn = "extractModelPayload"
  => LET textUsable ==
           input.text.t = "str" /\ Trim(input.text.s) # <<>>
     IN  /\ output.value.threw
              = (~textUsable /\ input.functionCalls = Throws)
         /\ ~output.value.threw
              => output.value.payload = Selected(input, NotNull)

\* C22 witness: text() threw, the first function call unwrapped to nothing,
\* the second to a string, a part was usable too, and the second call's
\* string was returned
C22_Witness ==
  /\ output.fn = "extractModelPayload"
  /\ input.text = Throws
  /\ Len(CallYields(input)) = 2
  /\ CallYields(input)[1] = Null
  /\ CallYields(input)[2] = JStr(<<"b">>)
  /\ \E i \in DOMAIN PartYields(input) : PartYields(input)[i] # Null
  /\ output.value = [threw |-> FALSE, payload |-> JStr(<<"b">>)]

\* C23: on success the amount given to recordTokenUsage is the response's
\* tokensUsed, which is the sum of what every model call of the request
\* reported, failed earlier attempts included, and tokensRemaining is the
\* remaining of the snapshot that recordTokenUsage call produced.
C23_SuccessCommitsReported ==
  (Done /\ R.response.status = 200)
  => /\ R.path = "success"
     /\ Len(log) = 1
     /\ log[1].fn = "recordTokenUsage"
     /\ log[1].topic = SuccessLabel(R.topic)
     /\ log[1].amount = R.response.body.tokensUsed
     /\ R.response.body.tokensUsed = ReportedTotal(R.calls)
     /\ log[1].result = SnapshotOf(ParseState(log[1].after).used)
     /\ ParseState(log[1].after).used
          = JsAdd(ParseState(log[1].before).used, ReportedTotal(R.calls))
     /\ R.response.body.tokensRemaining = log[1].result.remaining
     /\ R.response.body.allowance = log[1].result.allowance

\* C23 witness: a success on the compact attempt after a primary attempt that
\* failed and reported tokens; both counts are in the committed amount
C23_Witness ==
  /\ Done
  /\ R.response.status = 200
  /\ Len(R.calls) = 2
  /\ JsGt(R.calls[1].tokensUsed, Num(0))
  /\ JsGt(R.calls[2].tokensUsed, Num(0))
  /\ log[1].amount = JsAdd(R.calls[1].tokensUsed, R.calls[2].tokensUsed)
  /\ R.response.body.tokensRemaining
       # R.snapshotBefore.remaining

\* the primary call has returned a response with one of the four recoverable
\* conditions, reporting at least the remaining the request started with
PrimarySpentTheBudget ==
  /\ R.calls # <<>>
  /\ Returned(R.calls[1])
  /\ ~extractModelPayload(R.calls[1].aiResponse).threw
  /\ ConditionOf(R.calls[1].aiResponse) # "none"
  /\ JsLe(R.snapshotBefore.remaining, R.calls[1].tokensUsed)

\* C24: when the primary attempt fails recoverably and reported at least the
\* remaining allowance the request started with, the compact attempt is not
\* invoked and the request ends with 429 and the budget-exhausted message,
\* not with the primary attempt's failure message or 502.
C24_ExhaustedDuringAttempts ==
  PrimarySpentTheBudget
  => /\ Len(R.calls) = 1
     /\ R.pc \in {"commit", "done"}
     /\ R.path = "exit"
     /\ R.lastStatus = 429
     /\ R.pc = "done"
          => /\ R.response.status = 429
             /\ R.response.body.error = MsgExhaustedDuring
             /\ R.response.body.error
                  # ConditionMessage(ConditionOf(R.calls[1].aiResponse), FALSE)

\* C24 witness: a request that started with remaining 3000, whose primary
\* call returned a truncated payload and reported 3000 tokens, answered 429
C24_Witness ==
  /\ Done
  /\ PrimarySpentTheBudget
  /\ R.snapshotBefore.remaining = Num(3000)
  /\ R.calls[1].tokensUsed = Num(3000)
  /\ ConditionOf(R.calls[1].aiResponse) = "truncated"
  /\ R.response.status = 429

\* the attempt configuration a model call was made for
ConfigOf(c) ==
  CHOOSE a \in {attemptConfigs[k] : k \in DOMAIN attemptConfigs} :
    a.label = c.label

\* the starting remaining minus what the calls before the i-th reported,
\* floored at 0
BudgetSeenAt(i) ==
  MathMax(Num(0), JsSub(R.snapshotBefore.remaining,
                        ReportedTotal(SubSeq(R.calls, 1, i - 1))))

\* C25: every model call is issued with the ceiling
\* min(attempt.maxOutputTokens, availableTokens), availableTokens being the
\* starting remaining minus the tokens reported by the earlier calls, floored
\* at 0; the ceiling is > 0, at most the attempt's maximum and at most the
\* budget the request still sees.
C25_CeilingIsCapped ==
  \A i \in DOMAIN R.calls :
    LET c == R.calls[i]
    IN  /\ c.availableTokens = BudgetSeenAt(i)
        /\ c.maxOutputTokens
             = MathMin(Num(ConfigOf(c).maxOutputTokens), BudgetSeenAt(i))
        /\ JsGt(c.maxOutputTokens, Num(0))
        /\ JsLe(c.maxOutputTokens, Num(ConfigOf(c).maxOutputTokens))
        /\ JsLe(c.maxOutputTokens, BudgetSeenAt(i))

\* C25 witness: a compact call issued with a ceiling of 500, what was left of
\* a starting remaining of 3000 after the primary call reported 2500
C25_Witness ==
  /\ Len(R.calls) = 2
  /\ R.snapshotBefore.remaining = Num(3000)
  /\ R.calls[1].maxOutputTokens = Num(PRIMARY_MAX_OUTPUT_TOKENS)
  /\ R.calls[1].tokensUsed = Num(2500)
  /\ R.calls[2].label = "compact"
  /\ R.calls[2].maxOutputTokens = Num(500)

\* the request made a model call and answered with an error while the calls
\* that completed reported nothing
FailedAtZero ==
  /\ Done
  /\ R.response.status # 200
  /\ R.calls # <<>>
  /\ ReportedTotal(R.calls) = Num(0)

\* C26: a request that ends in failure with a running total of 0 performs no
\* ledger write: the persisted used and history are the same after the
\* request as before it, and the error response carries the unchanged
\* snapshot.
C26_ZeroFailureLeavesLedger ==
  FailedAtZero
  => /\ ParseState(file).used = ParseState(file0).used
     /\ ParseState(file).history = ParseState(file0).history
     /\ \A n \in DOMAIN log :
          ParseState(log[n].after) = ParseState(log[n].before)
     /\ R.response.body.used = ParseState(file0).used
     /\ R.response.body.remaining = R.snapshotBefore.remaining
     /\ R.response.body.allowance = R.snapshotBefore.allowance

\* C26 witness: a primary call that threw and was answered 503, or a request
\* whose two calls reported no usage and was answered 502, on a ledger that
\* had spend recorded
C26_Witness ==
  /\ FailedAtZero
  /\ JsGt(ParseState(file0).used, Num(0))
  /\ \/ R.calls[1].settled = "threw" /\ R.response.status = 503
     \/ Len(R.calls) = 2 /\ Returned(R.calls[2]) /\ R.response.status = 502

\* C27: recordTokenUsage(a, label) with a positive finite a, run without
\* interference, sets used to used + a, sets history to the first 20 entries
\* of the new record (tokens round(a), the given label) followed by the old
\* history, persists that state, and returns the snapshot getTokenSnapshot
\* returns right afterwards.
C27_RecordEffect ==
  \A n \in DOMAIN log :
    (log[n].fn = "recordTokenUsage" /\ PositiveFinite(log[n].amount))
    => LET old == ParseState(log[n].before)
           new == ParseState(log[n].after)
           m == IF Len(old.history) < HISTORY_LIMIT
                THEN Len(old.history) + 1 ELSE HISTORY_LIMIT
       IN  /\ log[n].after.k = "doc"
           /\ new.used = JsAdd(old.used, log[n].amount)
           /\ Len(new.history) = m
           /\ new.history[1].tokens = MathRound(log[n].amount)
           /\ new.history[1].topic = log[n].topic
           /\ \A i \in 2 .. m : new.history[i] = old.history[i - 1]
           /\ log[n].result = SnapshotOf(new.used)
           /\ (n = Len(log) /\ led[1].pc = "none") => file = log[n].after

\* C27 witness: 2.5 tokens recorded on a ledger holding 20 records: used grew
\* by 2.5, the new record says 3 tokens and the oldest record is gone
C27_Witness ==
  \E n \in DOMAIN log :
    /\ log[n].fn = "recordTokenUsage"
    /\ log[n].amount = Halves(5)
    /\ log[n].before.k = "doc"
    /\ Len(log[n].before.history) = HISTORY_LIMIT
    /\ Len(log[n].after.history) = HISTORY_LIMIT
    /\ log[n].after.history[1].tokens = Num(3)
    /\ log[n].after.history[HISTORY_LIMIT]
         = log[n].before.history[HISTORY_LIMIT - 1]
    /\ log[n].result.used = JsAdd(log[n].before.used, Halves(5))

\* the request has returned a response in one of the terminal outcomes:
\* success, failure after attempts, or budget exhausted (a body that fails
\* the input checks is answered before the pipeline is entered)
TerminalOutcome ==
  /\ R.pc = "done"
  /\ R.entered
       => \/ R.response.status = 200 /\ R.path = "success"
          \/ R.response.status = 429
               /\ R.response.body.error \in {MsgExhausted, MsgExhaustedDuring}
          \/ /\ R.response.status \notin {200, 429}
             /\ R.calls # <<>>
             /\ R.path \in {"exit", "catch"}

\* C28: provided every model call returns or throws and every ledger file
\* operation completes, every request returns a response, exactly one (once
\* returned it is never replaced), after at most two model invocations, in
\* one of the terminal outcomes.
C28_Termination ==
  /\ (R.pc # "idle") ~> TerminalOutcome
  /\ [](Len(R.calls) <= 2)
  /\ [][R.pc = "done" => req' = req]_vars

\* C28 witness: a request that returned after two model invocations
C28_Witness ==
  /\ TerminalOutcome
  /\ R.entered
  /\ Len(R.calls) = 2
  /\ Returned(R.calls[1])
  /\ R.calls[2].settled # "pending"

\* the i-th model call returned a payload that was flagged truncated, failed
\* JSON decoding or failed schema validation
StructuralFailure(i) ==
  /\ i \in DOMAIN R.calls
  /\ Returned(R.calls[i])
  /\ ~extractModelPayload(R.calls[i].aiResponse).threw
  /\ ConditionOf(R.calls[i].aiResponse) \in {"truncated", "parse", "schema"}

\* C29: when the compact attempt's payload is flagged truncated, fails JSON
\* decoding or fails schema validation, the loop stops and no further model
\* call is made; when the same happens on the primary attempt and the request
\* still sees available tokens > 0, the compact attempt is invoked next.
C29_StopIfLast ==
  \A i \in DOMAIN R.calls :
    StructuralFailure(i)
    => /\ R.calls[i].label = "compact"
            => /\ i = Len(R.calls)
               /\ R.pc \in {"commit", "done"}
               /\ R.path = "exit"
       /\ (R.calls[i].label = "primary" /\ JsGt(BudgetSeenAt(i + 1), Num(0)))
            => /\ Len(R.calls) = i + 1
               /\ R.calls[i + 1].label = "compact"
               /\ R.calls[i + 1].availableTokens = BudgetSeenAt(i + 1)

\* C29 witness: the primary attempt's payload failed schema validation with
\* budget left, the compact attempt was invoked, its payload did not decode,
\* and the request left the loop after it
C29_Witness ==
  /\ Done
  /\ Len(R.calls) = 2
  /\ StructuralFailure(1)
  /\ ConditionOf(R.calls[1].aiResponse) = "schema"
  /\ StructuralFailure(2)
  /\ ConditionOf(R.calls[2].aiResponse) = "parse"
  /\ R.path = "exit"

\* the i-th model call returned and the extractor handed back an object
ObjectPayload(i) ==
  /\ i \in DOMAIN R.calls
  /\ Returned(R.calls[i])
  /\ ~extractModelPayload(R.calls[i].aiResponse).threw
  /\ PayloadOf(R.calls[i].aiResponse).t \in {"obj", "arr"}

\* the request left the loop right after its i-th call
LeftLoopAfter(i) ==
  i = Len(R.calls) /\ R.pc \in {"commit", "done"} /\ R.path # "catch"

\* C30: a payload the extractor returns as an object is never sanitized,
\* checked for truncation or JSON-decoded: the object itself goes to schema
\* validation, which alone decides the attempt; only string payloads are
\* ever reported truncated or undecodable.
C30_ObjectSkipsDecoding ==
  \A i \in DOMAIN R.calls :
    LET c == R.calls[i]
        p == PayloadOf(c.aiResponse)
        compact == ConfigOf(c).compact
    IN  /\ (ObjectPayload(i) /\ HasNineStrings(p))
             => /\ i = Len(R.calls)
                /\ R.pc \in {"commit", "done"}
                /\ R.path = "success"
                /\ R.canvas = [k \in CANVAS_KEYS |-> Trim(p.o[k].s)]
        /\ (ObjectPayload(i) /\ ~HasNineStrings(p))
             => \/ /\ i < Len(R.calls)
                   /\ ~compact
                \/ /\ LeftLoopAfter(i)
                   /\ R.path = "exit"
                   /\ R.lastErrorMessage
                        \in {MsgSchema(compact), MsgExhaustedDuring}
        /\ ( /\ Returned(c)
             /\ LeftLoopAfter(i)
             /\ R.lastErrorMessage \in {MsgTruncated(compact), MsgParse(compact)} )
             => IsStringPayload(c.aiResponse)

\* C30 witness: the primary attempt returned an object lacking a required
\* key, the compact attempt one with all nine, and the request succeeded with
\* the trimmed fields of that object
C30_Witness ==
  /\ Done
  /\ Len(R.calls) = 2
  /\ ObjectPayload(1)
  /\ ~HasNineStrings(PayloadOf(R.calls[1].aiResponse))
  /\ ObjectPayload(2)
  /\ HasNineStrings(PayloadOf(R.calls[2].aiResponse))
  /\ R.response.status = 200
  /\ \A k \in CANVAS_KEYS : R.response.body.canvas[k] = <<"a">>

\* the ledger file holds a document whose remaining is 0
PersistedRemainingZero ==
  /\ file.k = "doc"
  /\ SnapshotOf(ParseState(file).used).remaining = Num(0)

\* C31: with requests running concurrently against the same ledger, no
\* request issues a model invocation at a moment when the persisted ledger's
\* remaining is 0.
C31_NoCallOnEmptyLedger ==
  [][ \A p \in Callers :
        Len(req'[p].calls) > Len(req[p].calls) => ~PersistedRemainingZero ]_vars

\* the request is inside a recordTokenUsage call that has not started writing
RecordNotYetWritten ==
  led[1].op = "record" /\ led[1].pc \in {"access", "read"}

\* C32: a request commits to the ledger at most once: whichever of the
\* success path, the loop-exit path and the exception path it takes, the
\* ledger never holds more than one record of the request nor more than the
\* request's total, and a recordTokenUsage call of the request always starts
\* on the ledger as it was before the request.
C32_AtMostOneCommit ==
  /\ Len(ParseState(file).history) <= Len(ParseState(file0).history) + 1
  /\ JsLe(ParseState(file).used,
          JsAdd(ParseState(file0).used, ReportedTotal(R.calls)))
  /\ RecordNotYetWritten
       => /\ R.pc = "commit"
          /\ ParseState(file).used = ParseState(file0).used
          /\ ParseState(file).history = ParseState(file0).history
  /\ R.pc = "done"
       => /\ led[1].pc = "none"
          /\ Len(log) <= 1

\* C32 witness: a request that took the exception path on its compact call
\* after a primary call that reported tokens: one record was added
C32_Witness ==
  /\ Done
  /\ R.path = "catch"
  /\ Len(R.calls) = 2
  /\ JsGt(ReportedTotal(R.calls), Num(0))
  /\ Len(ParseState(file).history) = Len(ParseState(file0).history) + 1
  /\ ParseState(file).history[1].tokens = ReportedTotal(R.calls)
  /\ ParseState(file).history[1].topic = FailedLabel(R.topic)

\* every section call was started together with the others, with the ceiling
\* min(5000, remaining at request start)
SectionsInParallel ==
  /\ R.calls # <<>> => DOMAIN R.calls = Sections
  /\ \A i \in DOMAIN R.calls :
       R.calls[i].maxOutputTokens
         = MathMin(Num(MAX_OUTPUT_TOKENS), R.snapshotBefore.remaining)

\* the ledger holds what it held at the start
LedgerUnchanged ==
  /\ ParseState(file).used = ParseState(file0).used
  /\ ParseState(file).history = ParseState(file0).history

\* the ledger holds one record more than at the start, of the given amount
LedgerWrittenOnce(amount) ==
  /\ file.k = "doc"
  /\ file.used = JsAdd(ParseState(file0).used, amount)
  /\ Len(file.history) = Len(ParseState(file0).history) + 1
  /\ file.history[1].tokens = MathRound(amount)
  /\ file.history[1].topic = R.topic
  /\ Tail(file.history) = ParseState(file0).history

\* a request that failed, or was stopped at the gate, leaves the ledger as
\* it was, and no state holds more than one record of the request
FailureLeavesLedger ==
  /\ (Done /\ R.response.status # 200) => LedgerUnchanged
  /\ (Done /\ R.response.status = 429) => R.calls = <<>>
  /\ Len(ParseState(file).history) <= Len(ParseState(file0).history) + 1

\* C33 as claimed: the section calls are issued in parallel with ceiling
\* min(5000, remaining at start); on success the ledger is written exactly
\* once with the sum of the sections' token counts; it is left unchanged when
\* a section call fails or the pre-flight snapshot has remaining 0.
C33_GenerateLedgerEffect ==
  /\ SectionsInParallel
  /\ FailureLeavesLedger
  /\ (Done /\ R.response.status = 200)
       => /\ \A i \in Sections : Returned(R.calls[i])
          /\ R.response.body.tokensUsed = ReportedTotal(R.calls)
          /\ LedgerWrittenOnce(ReportedTotal(R.calls))

\* C33 amended: as claimed, except that a success whose sections reported
\* no tokens at all writes nothing: the ledger is written exactly once when
\* the sum is > 0 and left unchanged when it is 0.
C33_GenerateLedgerEffectIfBilled ==
  /\ SectionsInParallel
  /\ FailureLeavesLedger
  /\ (Done /\ R.response.status = 200)
       => /\ \A i \in Sections : Returned(R.calls[i])
          /\ R.response.body.tokensUsed = ReportedTotal(R.calls)
          /\ IF JsGt(ReportedTotal(R.calls), Num(0))
             THEN LedgerWrittenOnce(ReportedTotal(R.calls))
             ELSE LedgerUnchanged
          /\ R.response.body.tokensRemaining
               = SnapshotOf(ParseState(file).used).remaining

\* C33 witness: a case-study request whose sections all returned, reporting
\* tokens, on a ledger with remaining 3000: ceilings of 3000 and one record
C33_Witness ==
  /\ Done
  /\ R.response.status = 200
  /\ R.snapshotBefore.remaining = Num(3000)
  /\ \A i \in Sections :
       R.calls[i].maxOutputTokens = Num(3000)
         /\ JsGt(R.calls[i].tokensUsed, Num(0))
  /\ LedgerWrittenOnce(ReportedTotal(R.calls))

\* the request left the attempt loop before it had called every attempt
LeftLoopEarly ==
  /\ R.pc \in {"commit", "done"}
  /\ R.path = "exit"
  /\ Len(R.calls) < Len(attemptConfigs)

\* C34: the skip branch is never taken. Where the loop tests
\* maxTokensThisAttempt <= 0, availableTokens > 0 and the attempt's
\* maxOutputTokens > 0, so the attempt is called: the calls are the attempts
\* in order with none left out, and a request that leaves the loop with an
\* attempt not called sees a budget of 0 and ends with the 429 outcome.
C34_SkipNeverTaken ==
  /\ \A i \in DOMAIN R.calls :
       /\ R.calls[i].label = attemptConfigs[i].label
       /\ attemptConfigs[i].maxOutputTokens > 0
       /\ JsGt(R.calls[i].availableTokens, Num(0))
       /\ JsGt(R.calls[i].maxOutputTokens, Num(0))
  /\ LeftLoopEarly
       => /\ BudgetSeenAt(Len(R.calls) + 1) = Num(0)
          /\ R.lastStatus = 429
          /\ R.lastErrorMessage = MsgExhaustedDuring
          /\ R.pc = "done" => R.response.status = 429

\* C34 witness: the primary call reported more than the 1000 tokens the
\* request started with; the compact attempt was not called and the request
\* answered 429
C34_Witness ==
  /\ Done
  /\ LeftLoopEarly
  /\ R.snapshotBefore.remaining = Num(1000)
  /\ Len(R.calls) = 1
  /\ R.calls[1].tokensUsed = Num(2500)
  /\ R.response.status = 429

====
